---- MODULE Spec2Model ----
(***************************************************************************)
(* Voxhook: the decision layer between a hook event and a played sound.    *)
(*                                                                         *)
(*   SpecPlay   the playback coordinator (hooks/tts/audio_queue.py and the *)
(*              three callers of audio_lock) run by concurrent processes   *)
(*   SpecPlayHang, SpecPlayLive  the same with the calls going on, and    *)
(*              with the players terminating as well                       *)
(*   SpecKill   the same with processes killed inside their calls          *)
(*   SpecCache  the audio cache (hooks/tts/cache_manager.py): one process  *)
(*              calling store, lookup and get_any_cached_file, with files  *)
(*              and the index document also changed from outside           *)
(*   SpecAware  the awareness classifier (hooks/common/awareness.py)       *)
(*              applied to every configuration, project name and outcome   *)
(*              of the OS queries within the bounds                        *)
(*   SpecMain   one event handled by the TTS handler's main and by the     *)
(*              push handler's main, for every config, event and cache     *)
(*              within the bounds                                          *)
(*   SpecRace   cache calls of concurrent processes, step by step          *)
(*   SpecCategorize  the two message categorizers applied to every message *)
(*              put together from the fragments within the bounds          *)
(*   SpecCascade  the push handler's get_context_aware_notification for    *)
(*              Notification, Stop and tool-use events over families of    *)
(*              mappings                                                   *)
(*   SpecNotify  the push handler's main from stdin to its exit status     *)
(***************************************************************************)
EXTENDS Integers, Sequences, FiniteSets, TLC

(***************************************************************************)
(* Bounds of the model.                                                    *)
(***************************************************************************)
NumProcs == 3
MaxSeq == 2
MaxEntries == 2
MaxClock == 3
MaxTitleLen == 2
MaxFragments == 2

\* The seconds the cooldown model runs for.
MaxTime == 600

Procs == 1..NumProcs
\* Content hashes: one more than the cache may hold.
Hashes == 1..(MaxEntries + 1)
\* Artifact paths a caller may hand to store.
Paths == {"a.wav", "b.wav"}

None == "None"

VARIABLES
    \* ---- playback coordinator ----
    pc,        \* per process: position inside its one playback call
    job,       \* per process: the call it makes and the number of files
    section,   \* per process: index of the current lock section of the call
    fileIdx,   \* per process: index (1-based) of the next file to play
    holders,   \* processes holding flock(LOCK_EX) on /tmp/voxhook_audio.lock
    running,   \* processes whose afplay child is running now
    played,    \* the order in which afplay was started: <<[proc, file]>>
    \* ---- audio cache ----
    doc,       \* the index document cache/_index.json
    files,     \* the artifact paths that exist on disk
    clock,     \* the last value time.time() returned
    ret,       \* the cache call that has just returned and what it did
    \* ---- awareness classifier ----
    aw,        \* the detect_awareness call made: its inputs and its result
    \* ---- event handlers ----
    mpc,               \* where the TTS handler's main is
    exited,            \* where and with what status it ended
    ntfy_topic,        \* args.ntfy_topic
    config,            \* what load_config returned
    input_data,        \* what was read from stdin
    notification_type, \* the notification sub-type
    tier,              \* what detect_awareness returned
    out,               \* the effects of the TTS handler, in order
    sentinels,         \* the mute file, the directories with a suppress file
    marker,            \* the idle cooldown file
    notify,            \* the invocation of the push handler
    \* ---- concurrent cache calls ----
    racers,            \* each process: the step and the index copy of its call
    \* ---- message categorizers ----
    cat,               \* the message categorized and what each categorizer said
    \* ---- push handler's message cascade ----
    resolution,        \* the get_context_aware_notification call and its result
    \* ---- background renders ----
    render,            \* the render processes, and the handler playing a file
    \* ---- idle cooldown ----
    cooldown           \* the time, and the handlers of idle notifications

playVars == <<pc, job, section, fileIdx, holders, running, played>>

cacheVars == <<doc, files, clock, ret>>

awareVars == <<aw>>

mainVars == <<mpc, exited, ntfy_topic, config, input_data, notification_type,
              tier, out, sentinels, marker, notify>>

raceVars == <<racers>>

catVars == <<cat>>

cascadeVars == <<resolution>>

renderVars == <<render>>

cooldownVars == <<cooldown>>

exceptPlay == <<cacheVars, awareVars, mainVars, raceVars, catVars,
    cascadeVars, renderVars, cooldownVars>>

exceptCache == <<playVars, awareVars, mainVars, raceVars, catVars,
    cascadeVars, renderVars, cooldownVars>>

exceptAware == <<playVars, cacheVars, mainVars, raceVars, catVars,
    cascadeVars, renderVars, cooldownVars>>

exceptMain == <<playVars, cacheVars, awareVars, raceVars, catVars,
    cascadeVars, renderVars, cooldownVars>>

exceptRace == <<playVars, awareVars, mainVars, catVars, cascadeVars, renderVars, cooldownVars>>

exceptCat == <<playVars, cacheVars, awareVars, mainVars, raceVars, cascadeVars, renderVars, cooldownVars>>

exceptCascade == <<playVars, cacheVars, awareVars, mainVars, raceVars, catVars, renderVars, cooldownVars>>

exceptNotify == <<playVars, cacheVars, awareVars, raceVars, catVars, mpc, exited, ntfy_topic, config, input_data, notification_type, tier, out, sentinels, marker, renderVars, cooldownVars>>

exceptRender == <<playVars, awareVars, mainVars, raceVars, catVars, cascadeVars, cooldownVars, ret>>

exceptCooldown == <<playVars, cacheVars, awareVars, mainVars, raceVars, catVars, cascadeVars, renderVars>>

vars == <<pc, job, section, fileIdx, holders, running, played,
          doc, files, clock, ret, aw,
          mpc, exited, ntfy_topic, config, input_data, notification_type,
          tier, out, sentinels, marker, notify, racers, cat, resolution,
          render, cooldown>>

(***************************************************************************)
(* Playback coordinator                                                    *)
(***************************************************************************)
NoJob == [kind |-> None, n |-> 0]

\* fcntl.flock(f, LOCK_SH): a shared lock is granted beside other holders.
flock_SH(p) == TRUE

\* fcntl.flock(f, fcntl.LOCK_EX) returns only when no other open file
\* description holds the lock.
flock_EX(p) == holders \ {p} = {}

\* A sequence played as one play_audio call per file: a lock section per file.
LockSectionsPerFile(kind, n) == [i \in 1..n |-> 1]

\* The `with audio_lock():` blocks of a call, each with the number of player
\* runs inside it.  All three callers have exactly one block: play_audio and
\* generate_and_play run the player once in it, play_sequence once per path.
LockSections(kind, n) == IF kind = "play_sequence" THEN <<n>> ELSE <<1>>

\* Number of files played in the lock sections before section s.
RECURSIVE FilesBefore(_, _)
FilesBefore(secs, s) ==
    IF s <= 1 THEN 0 ELSE secs[s - 1] + FilesBefore(secs, s - 1)

Sections(p) == LockSections(job[p].kind, job[p].n)

\* Entering a call: cmd is built, then audio_lock() opens the lock file.
Call(p, kind, n) ==
    /\ pc[p] = "idle"
    /\ job' = [job EXCEPT ![p] = [kind |-> kind, n |-> n]]
    /\ section' = [section EXCEPT ![p] = 1]
    /\ fileIdx' = [fileIdx EXCEPT ![p] = 1]
    /\ pc' = [pc EXCEPT ![p] =
                 IF LockSections(kind, n) = <<>> THEN "done" ELSE "flock"]
    /\ UNCHANGED <<holders, running, played>>
    /\ UNCHANGED exceptPlay

play_audio(p) == Call(p, "play_audio", 1)

play_sequence(p) == \E n \in 0..MaxSeq : Call(p, "play_sequence", n)

generate_and_play(p) == Call(p, "generate_and_play", 1)

\* audio_lock(): fcntl.flock(f, fcntl.LOCK_EX); yield
audio_lock_acquire(p) ==
    /\ pc[p] = "flock"
    /\ flock_EX(p)
    /\ holders' = holders \cup {p}
    /\ pc' = [pc EXCEPT ![p] = "body"]
    /\ UNCHANGED <<job, section, fileIdx, running, played>>
    /\ UNCHANGED exceptPlay

SectionEnd(p) == FilesBefore(Sections(p), section[p]) + Sections(p)[section[p]]

\* subprocess.run(cmd...) inside the with block: the player child starts.
subprocess_run_start(p) ==
    /\ pc[p] = "body"
    /\ fileIdx[p] <= SectionEnd(p)
    /\ running' = running \cup {p}
    /\ played' = Append(played, [proc |-> p, file |-> fileIdx[p]])
    /\ pc' = [pc EXCEPT ![p] = "wait"]
    /\ UNCHANGED <<job, section, fileIdx, holders>>
    /\ UNCHANGED exceptPlay

\* subprocess.run returns when the child exits; its return code is ignored.
subprocess_run_end(p) ==
    /\ pc[p] = "wait"
    /\ running' = running \ {p}
    /\ fileIdx' = [fileIdx EXCEPT ![p] = @ + 1]
    /\ pc' = [pc EXCEPT ![p] = "body"]
    /\ UNCHANGED <<job, section, holders, played>>
    /\ UNCHANGED exceptPlay

\* A with block that is left with the lock still held.
leave_holding_lock(p) ==
    /\ pc[p] = "body"
    /\ fileIdx[p] > SectionEnd(p)
    /\ IF section[p] < Len(Sections(p))
          THEN /\ section' = [section EXCEPT ![p] = @ + 1]
               /\ pc' = [pc EXCEPT ![p] = "flock"]
          ELSE /\ section' = section
               /\ pc' = [pc EXCEPT ![p] = "done"]
    /\ UNCHANGED <<job, fileIdx, holders, running, played>>
    /\ UNCHANGED exceptPlay

\* audio_lock(): finally: fcntl.flock(f, fcntl.LOCK_UN); f.close()
audio_lock_release(p) ==
    /\ pc[p] = "body"
    /\ fileIdx[p] > SectionEnd(p)
    /\ holders' = holders \ {p}
    /\ IF section[p] < Len(Sections(p))
          THEN /\ section' = [section EXCEPT ![p] = @ + 1]
               /\ pc' = [pc EXCEPT ![p] = "flock"]
          ELSE /\ section' = section
               /\ pc' = [pc EXCEPT ![p] = "done"]
    /\ UNCHANGED <<job, fileIdx, running, played>>
    /\ UNCHANGED exceptPlay

\* A lock that outlives its holder, as a lock file that exists would.
kill_keeps_lock(p) ==
    /\ pc[p] \in {"flock", "body", "wait"}
    /\ pc' = [pc EXCEPT ![p] = "killed"]
    /\ UNCHANGED <<job, section, fileIdx, holders, running, played>>
    /\ UNCHANGED exceptPlay

\* The process is killed inside a call: before the lock is granted, in the
\* with block, or while subprocess.run waits for the player.  The kernel
\* closes its files, and with the lock file's only open file description
\* the flock goes (the player child does not inherit it: Python opens files
\* non-inheritable and subprocess closes the rest).  A player that was
\* running plays on.
kill(p) ==
    /\ pc[p] \in {"flock", "body", "wait"}
    /\ pc' = [pc EXCEPT ![p] = "killed"]
    /\ holders' = holders \ {p}
    /\ UNCHANGED <<job, section, fileIdx, running, played>>
    /\ UNCHANGED exceptPlay

\* The player of a killed process comes to its end.
orphan_exit(p) ==
    /\ pc[p] = "killed"
    /\ p \in running
    /\ running' = running \ {p}
    /\ UNCHANGED <<pc, job, section, fileIdx, holders, played>>
    /\ UNCHANGED exceptPlay

InitPlay ==
    /\ pc = [p \in Procs |-> "idle"]
    /\ job = [p \in Procs |-> NoJob]
    /\ section = [p \in Procs |-> 1]
    /\ fileIdx = [p \in Procs |-> 1]
    /\ holders = {}
    /\ running = {}
    /\ played = <<>>

(***************************************************************************)
(* Audio cache (hooks/tts/cache_manager.py)                                *)
(*                                                                         *)
(* The index document is either a well-formed index, whose "entries" dict  *)
(* is kept as the sequence of its items in insertion order (Python dicts   *)
(* and json keep that order, and _evict and get_any_cached_file depend on  *)
(* it), or one of the other things the file can be.  An entry keeps its    *)
(* key, "path" and "last_access"; "text" and "created" are written by      *)
(* store and read by nobody.                                               *)
(***************************************************************************)
DocKinds == {"index", "missing", "unreadable", "badjson", "notindex"}

Index(es) == [kind |-> "index", entries |-> es]

EmptyIndex == Index(<<>>)

\* The document as something other than an index: no file, a file that
\* cannot be read (OSError), text that is not JSON, JSON without "entries".
Broken(kind) == [kind |-> kind, entries |-> <<>>]

\* A _load_index that lets the JSONDecodeError of json.loads through.
load_index_uncaught(d) == d

\* _load_index: {"entries": {}} when the file is missing or read_text /
\* json.loads raise OSError / JSONDecodeError, else whatever json.loads gave.
load_index(d) ==
    IF d.kind \in {"missing", "unreadable", "badjson"} THEN EmptyIndex ELSE d

\* The entries a call finds when it loads the document.
Loaded(d) == load_index(d).entries

\* index["entries"] raises KeyError / TypeError on JSON that has no such key.
HasEntries(index) == index.kind = "index"

Keys(es) == {es[i].h : i \in 1..Len(es)}

Pos(es, h) == CHOOSE i \in 1..Len(es) : es[i].h = h

\* The sort with the key negated: newest first.
SortsBeforeNewestFirst(es, i, j) ==
    \/ es[i].la > es[j].la
    \/ es[i].la = es[j].la /\ i < j

\* sorted(entries, key=lambda k: entries[k].get("last_access", 0)) is stable:
\* position i comes before position j when it is older, or as old and
\* earlier in the dict.
SortsBefore(es, i, j) ==
    \/ es[i].la < es[j].la
    \/ es[i].la = es[j].la /\ i < j

\* 1-based rank of position i in sorted_keys.
Rank(es, i) ==
    Cardinality({j \in 1..Len(es) : j # i /\ SortsBefore(es, j, i)}) + 1

\* _evict: the positions of sorted_keys[:to_remove].
EvictedPositions(es, max_entries) ==
    LET to_remove == Len(es) - max_entries
    IN  {i \in 1..Len(es) : Rank(es, i) <= to_remove}

RECURSIVE Without(_, _)
\* The items of es outside the positions in drop, order kept (dict.pop).
Without(es, drop) ==
    IF es = <<>> THEN <<>>
    ELSE LET n == Len(es)
             front == Without(SubSeq(es, 1, n - 1), drop)
         IN  IF n \in drop THEN front ELSE Append(front, es[n])

\* A dict.setdefault in place of the assignment: an old key keeps its entry.
PutIfAbsent(es, h, path, now) ==
    IF h \in Keys(es) THEN es
    ELSE Append(es, [h |-> h, path |-> path, la |-> now])

\* entries[text_hash] = {...}: a new key goes last, an old key keeps its place.
Put(es, h, path, now) ==
    LET e == [h |-> h, path |-> path, la |-> now]
    IN  IF h \in Keys(es) THEN [es EXCEPT ![Pos(es, h)] = e] ELSE Append(es, e)

\* What a cache call did: the document afterwards, the files afterwards,
\* val (the value returned, or "raise" when an exception leaves the call),
\* saved (whether _save_index ran) and evicted (the keys _evict popped).
Outcome(d, fs, val, saved, evicted) ==
    [doc |-> d, files |-> fs, val |-> val, saved |-> saved, evicted |-> evicted]

\* A store whose _evict lets the OSError of Path.unlink through: the call
\* raises before _save_index.
store_unlink_raises(d, fs, h, path, max_entries, now, unlinkFails) ==
    LET index == load_index(d)
    IN  IF ~HasEntries(index) THEN Outcome(d, fs, "raise", FALSE, {})
        ELSE LET es == Put(index.entries, h, path, now)
                 drop == IF Len(es) > max_entries
                            THEN EvictedPositions(es, max_entries) ELSE {}
             IN  IF unlinkFails /\ drop # {}
                 THEN Outcome(d, fs, "raise", FALSE, {es[i].h : i \in drop})
                 ELSE Outcome(Index(Without(es, drop)),
                              fs \ {es[i].path : i \in drop}, None, TRUE,
                              {es[i].h : i \in drop})

\* store(text_hash, text, audio_path, max_entries) at time now; unlinkFails:
\* Path.unlink raises OSError for the evicted files (swallowed by _evict).
store(d, fs, h, path, max_entries, now, unlinkFails) ==
    LET index == load_index(d)
    IN  IF ~HasEntries(index) THEN Outcome(d, fs, "raise", FALSE, {})
        ELSE LET es == Put(index.entries, h, path, now)
                 drop == IF Len(es) > max_entries
                            THEN EvictedPositions(es, max_entries) ELSE {}
                 gone == IF unlinkFails THEN {} ELSE {es[i].path : i \in drop}
             IN  Outcome(Index(Without(es, drop)), fs \ gone, None, TRUE,
                         {es[i].h : i \in drop})

\* A lookup that answers from the index and never writes it back.
lookup_readonly(d, fs, h, now) ==
    LET index == load_index(d)
    IN  IF ~HasEntries(index) THEN Outcome(d, fs, "raise", FALSE, {})
        ELSE IF h \notin Keys(index.entries)
        THEN Outcome(d, fs, None, FALSE, {})
        ELSE LET e == index.entries[Pos(index.entries, h)]
             IN  Outcome(d, fs, IF e.path \in fs THEN e.path ELSE None,
                         FALSE, {})

\* A lookup that reports a stale entry as a miss and leaves it in the index.
lookup_keeps_stale(d, fs, h, now) ==
    LET index == load_index(d)
    IN  IF ~HasEntries(index) THEN Outcome(d, fs, "raise", FALSE, {})
        ELSE IF h \notin Keys(index.entries)
        THEN Outcome(d, fs, None, FALSE, {})
        ELSE LET i == Pos(index.entries, h)
                 e == index.entries[i]
             IN  IF e.path \notin fs
                 THEN Outcome(d, fs, None, FALSE, {})
                 ELSE Outcome(Index([index.entries EXCEPT ![i].la = now]),
                              fs, e.path, TRUE, {})

\* lookup(text_hash) at time now.
lookup(d, fs, h, now) ==
    LET index == load_index(d)
    IN  IF ~HasEntries(index) THEN Outcome(d, fs, "raise", FALSE, {})
        ELSE IF h \notin Keys(index.entries)
        THEN Outcome(d, fs, None, FALSE, {})
        ELSE LET i == Pos(index.entries, h)
                 e == index.entries[i]
             IN  IF e.path \notin fs
                 THEN Outcome(Index(Without(index.entries, {i})), fs, None,
                              TRUE, {})
                 ELSE Outcome(Index([index.entries EXCEPT ![i].la = now]),
                              fs, e.path, TRUE, {})

\* get_any_cached_file(): the path of the first entry, in dict order, whose
\* file exists; None when there is none.
get_any_cached_file(d, fs) ==
    LET index == load_index(d)
    IN  IF ~HasEntries(index) THEN Outcome(d, fs, "raise", FALSE, {})
        ELSE LET es == index.entries
                 ok == {i \in 1..Len(es) : es[i].path \in fs}
             IN  Outcome(d, fs,
                         IF ok = {} THEN None
                         ELSE es[CHOOSE i \in ok : \A j \in ok : i <= j].path,
                         FALSE, {})

\* time.time() as read by a call: later than the previous reading, until the
\* bound of the model is reached; from then on the readings are equal.
Now == IF clock < MaxClock THEN clock + 1 ELSE clock

\* No call has returned since the files or the document last changed.
NoCall ==
    [op |-> None, h |-> 0, path |-> None, val |-> None, saved |-> FALSE,
     evicted |-> {}, follows |-> None, undeleted |-> {}]

\* How the call being made follows the last one: "store" right after a
\* store of the same hash returned, "stale" right after a lookup of the same
\* hash removed its stale entry, None otherwise or when a file or the index
\* document was changed in between.
Follows(h) ==
    IF ~(ret.h = h /\ ret.val = None /\ ret.saved) THEN None
    ELSE IF ret.op = "store" THEN "store"
    ELSE IF ret.op = "lookup" THEN "stale"
    ELSE None

\* The files of the entries a store popped that are there after the call:
\* those whose unlink raised.
Undeleted(op, h, path, r) ==
    IF op # "store" THEN {}
    ELSE LET es == Put(Loaded(doc), h, path, Now)
         IN  {es[i].path : i \in {j \in 1..Len(es) : es[j].h \in r.evicted}}
                 \cap (files \cap r.files)

Returned(op, h, path, r) ==
    [op |-> op, h |-> h, path |-> path, val |-> r.val, saved |-> r.saved,
     evicted |-> r.evicted, follows |-> Follows(h),
     undeleted |-> Undeleted(op, h, path, r)]

\* Path.unlink can only fail where _evict runs.
UnlinkOutcomes(h) ==
    IF h \notin Keys(Loaded(doc)) /\ Len(Loaded(doc)) >= MaxEntries
    THEN BOOLEAN ELSE {FALSE}

StoreOf(h, path) ==
    \E unlinkFails \in UnlinkOutcomes(h) :
        LET r == store(doc, files, h, path, MaxEntries, Now, unlinkFails)
        IN  /\ doc' = r.doc
            /\ files' = r.files
            /\ clock' = Now
            /\ ret' = Returned("store", h, path, r)
            /\ UNCHANGED exceptCache

StoreStep == \E h \in Hashes, path \in Paths : StoreOf(h, path)

LookupOf(h) ==
    LET r == lookup(doc, files, h, Now)
    IN  /\ doc' = r.doc
        /\ files' = r.files
        /\ clock' = Now
        /\ ret' = Returned("lookup", h, None, r)
        /\ UNCHANGED exceptCache

LookupStep == \E h \in Hashes : LookupOf(h)

AnyCachedStep ==
    /\ ret' = Returned("get_any_cached_file", 0, None,
                       get_any_cached_file(doc, files))
    /\ UNCHANGED <<doc, files, clock, exceptCache>>

\* A renderer (generate_audio) writes an artifact file.
RenderFile ==
    \E path \in Paths :
        /\ path \notin files
        /\ files' = files \cup {path}
        /\ ret' = NoCall
        /\ UNCHANGED <<doc, clock, exceptCache>>

\* An artifact file is deleted out of band.
DeleteFile ==
    \E path \in files :
        /\ files' = files \ {path}
        /\ ret' = NoCall
        /\ UNCHANGED <<doc, clock, exceptCache>>

\* The index document is removed, made unreadable or overwritten with
\* something that is not an index, out of band.
DamageIndex ==
    \E kind \in DocKinds \ {"index"} :
        /\ doc.kind = "index"
        /\ doc' = Broken(kind)
        /\ ret' = NoCall
        /\ UNCHANGED <<files, clock, exceptCache>>

InitCache ==
    /\ doc = Broken("missing")
    /\ files = {}
    /\ clock = 0
    /\ ret = NoCall

NextCache ==
    \/ StoreStep
    \/ LookupStep
    \/ AnyCachedStep
    \/ RenderFile
    \/ DeleteFile
    \/ DamageIndex

(***************************************************************************)
(* Awareness classifier (hooks/common/awareness.py)                        *)
(*                                                                         *)
(* Text is a sequence of characters over a small alphabet with upper and   *)
(* lower case, so that str.lower() and the substring test are computed.    *)
(***************************************************************************)
Chars == {"a", "A", "b"}

\* str.lower() on one character.
LowerChar(c) == IF c = "A" THEN "a" ELSE c

\* str.lower()
Lower(s) == [i \in DOMAIN s |-> LowerChar(s[i])]

\* The non-empty texts of at most n characters.
Texts(n) == UNION {[1..k -> Chars] : k \in 1..n}

\* `sub in s` for str.
Contains(s, sub) ==
    \E i \in 0..(Len(s) - Len(sub)) : SubSeq(s, i + 1, i + Len(sub)) = sub

\* A value that may be missing: a dict key that is not set, or the result of
\* a query that failed (None).  v of a missing value is a filler.
Some(v) == [has |-> TRUE, v |-> v]

Missing(filler) == [has |-> FALSE, v |-> filler]

FOCUSED == "FOCUSED"
NEARBY == "NEARBY"
AWAY == "AWAY"

\* _DEFAULT_TERMINAL_APPS, in the model's alphabet (mixed-case names).
DEFAULT_TERMINAL_APPS == {<<"A", "b">>, <<"b">>}

DEFAULT_IDLE_THRESHOLD == 300

\* dict.get(key, default)
Get(d, key, default) == IF d[key].has THEN d[key].v ELSE default

\* Detection that is on unless the configuration turns it off.
awareness_enabled_by_default(awareness_cfg) == Get(awareness_cfg, "enabled", TRUE)

\* awareness_cfg.get("enabled", False)
awareness_enabled(awareness_cfg) == Get(awareness_cfg, "enabled", FALSE)

\* terminal_apps = {a.lower() for a in awareness_cfg.get("terminal_apps", ...)}
terminal_apps(awareness_cfg) ==
    {Lower(a) : a \in Get(awareness_cfg, "terminal_apps", DEFAULT_TERMINAL_APPS)}

\* Every application taken for a terminal.
is_terminal_always(awareness_cfg, frontmost) == TRUE

\* frontmost.lower() in terminal_apps
is_terminal(awareness_cfg, frontmost) ==
    Lower(frontmost) \in terminal_apps(awareness_cfg)

\* The substring test without lower().
title_matches_case(title, project_name) ==
    title.has /\ Contains(title.v, project_name)

\* title and project_name.lower() in title.lower()
title_matches(title, project_name) ==
    title.has /\ Contains(Lower(title.v), Lower(project_name))

\* idle >= idle_threshold
is_away_at_threshold(awareness_cfg, idle) ==
    idle >= Get(awareness_cfg, "idle_threshold_seconds", DEFAULT_IDLE_THRESHOLD)

\* idle > idle_threshold
is_away(awareness_cfg, idle) ==
    idle > Get(awareness_cfg, "idle_threshold_seconds", DEFAULT_IDLE_THRESHOLD)

\* The OS queries detect_awareness makes, in order, given what each query
\* returns (os.frontmost, os.title, os.idle; Missing for a failed query).
awareness_queries(awareness_cfg, project_name, os) ==
    IF ~awareness_enabled(awareness_cfg) THEN <<>>
    ELSE IF ~os.frontmost.has THEN <<"frontmost">>
    ELSE IF is_terminal(awareness_cfg, os.frontmost.v)
         THEN IF project_name = <<>> THEN <<"frontmost">>
              ELSE <<"frontmost", "title">>
    ELSE <<"frontmost", "idle">>

\* detect_awareness(config, project_name): a tier, or None for unknown.
detect_awareness(awareness_cfg, project_name, os) ==
    IF ~awareness_enabled(awareness_cfg) THEN None
    ELSE IF ~os.frontmost.has THEN None
    ELSE IF is_terminal(awareness_cfg, os.frontmost.v)
         THEN IF project_name = <<>> THEN FOCUSED
              ELSE IF title_matches(os.title, project_name) THEN FOCUSED
              ELSE NEARBY
    ELSE IF ~os.idle.has THEN None
    ELSE IF is_away(awareness_cfg, os.idle.v) THEN AWAY
    ELSE NEARBY

\* config.get("awareness", {}): every key may be missing.
AwarenessConfigs ==
    [enabled : {Missing(FALSE), Some(TRUE), Some(FALSE)},
     terminal_apps : {Missing({}), Some({}), Some({<<"A">>}),
                      Some({<<"b", "A">>, <<"a">>})},
     idle_threshold_seconds : {Missing(0), Some(1)}]

\* Application names, project names (empty: no project) and window titles.
AppNames == Texts(2)

ProjectNames == {<<>>} \cup Texts(2)

Titles == Texts(MaxTitleLen)

\* HID idle time in seconds: around both thresholds.
IdleTimes == {0, 1, 2, DEFAULT_IDLE_THRESHOLD, DEFAULT_IDLE_THRESHOLD + 1}

\* What a query can return: a value, or None when it fails (timeout,
\* OSError, non-zero exit, empty output).  A query that is not made
\* returns nothing.
Answers(queries, q, values, filler) ==
    IF \E i \in DOMAIN queries : queries[i] = q
    THEN {Some(v) : v \in values} \cup {Missing(filler)}
    ELSE {Missing(filler)}

NoOS == [frontmost |-> Missing(<<>>), title |-> Missing(<<>>), idle |-> Missing(0)]

\* The results of the OS queries a call makes, answered as it makes them.
OSResults(awareness_cfg, project_name) ==
    UNION {
        UNION {
            {[frontmost |-> frontmost, title |-> title, idle |-> idle] :
                idle \in Answers(
                    awareness_queries(awareness_cfg, project_name,
                        [NoOS EXCEPT !.frontmost = frontmost]),
                    "idle", IdleTimes, 0)} :
            title \in Answers(
                awareness_queries(awareness_cfg, project_name,
                    [NoOS EXCEPT !.frontmost = frontmost]),
                "title", Titles, <<>>)} :
        frontmost \in Answers(
            awareness_queries(awareness_cfg, project_name, NoOS),
            "frontmost", AppNames, <<>>)}

NoDetect ==
    [called |-> FALSE,
     config |-> [enabled |-> Missing(FALSE), terminal_apps |-> Missing({}),
                 idle_threshold_seconds |-> Missing(0)],
     project_name |-> <<>>, os |-> NoOS, queries |-> <<>>, tier |-> None]

\* One call of detect_awareness.
DetectStep ==
    \E awareness_cfg \in AwarenessConfigs, project_name \in ProjectNames :
    \E os \in OSResults(awareness_cfg, project_name) :
        /\ ~aw.called
        /\ aw' = [called |-> TRUE,
                  config |-> awareness_cfg,
                  project_name |-> project_name,
                  os |-> os,
                  queries |-> awareness_queries(awareness_cfg, project_name, os),
                  tier |-> detect_awareness(awareness_cfg, project_name, os)]
        /\ UNCHANGED exceptAware

InitAware == aw = NoDetect

NextAware == DetectStep

(***************************************************************************)
(* Event handlers (hooks/tts/handler.py main, hooks/notify/handler.py      *)
(* main): one event, handled by one invocation of each hook command.       *)
(*                                                                         *)
(* A JSON document read by a handler is a record whose kind says what the  *)
(* text was: "dict" (an object, its keys present or missing), "notdict"    *)
(* (valid JSON of another type), "badjson", "missing" (no file),           *)
(* "undecodable" (bytes that are no text in the file's encoding).          *)
(***************************************************************************)
IDLE_COOLDOWN_SECONDS == 300

\* The working directory of the session that fires the event.
ProjectDir == "/w/a"

\* extract_project_name: Path(cwd).name, "" for an empty cwd.
extract_project_name(cwd) == IF cwd = ProjectDir THEN <<"a">> ELSE <<>>

\* awareness_cfg when the "awareness" key is missing: {}.
EmptyAwarenessConfig ==
    [enabled |-> Missing(FALSE), terminal_apps |-> Missing({}),
     idle_threshold_seconds |-> Missing(0)]

ConfigDoc(kind, enabled, sound, ntfy, delegate, dynamic, engine, awareness) ==
    [kind |-> kind, enabled |-> enabled, sound_enabled |-> sound,
     ntfy_enabled |-> ntfy, suppress_delegate_mode |-> delegate,
     dynamic_tts |-> dynamic, tts_engine |-> engine, awareness |-> awareness]

\* A config document that is not a JSON object with keys.
ConfigOther(kind) ==
    ConfigDoc(kind, Missing(FALSE), Missing(FALSE), Missing(FALSE),
              Missing(FALSE), Missing(FALSE), Missing(""),
              Missing(EmptyAwarenessConfig))

\* The dict load_config returns when config.json cannot be read or parsed.
DefaultConfig ==
    ConfigDoc("dict", Some(TRUE), Some(TRUE), Some(TRUE), Some(TRUE),
              Missing(FALSE), Missing(""), Missing(EmptyAwarenessConfig))

\* What config.json can be.
ConfigFiles ==
    {ConfigOther("missing"), ConfigOther("badjson"), ConfigOther("notdict"),
     ConfigOther("undecodable")}
    \cup
    {ConfigDoc("dict", enabled, sound_enabled, ntfy_enabled,
               suppress_delegate_mode, dynamic.tts, dynamic.engine, awareness) :
        enabled \in {Missing(FALSE), Some(FALSE)},
        sound_enabled \in {Missing(FALSE), Some(FALSE)},
        ntfy_enabled \in {Missing(FALSE), Some(FALSE)},
        suppress_delegate_mode \in {Missing(FALSE), Some(FALSE)},
        dynamic \in {[tts |-> Missing(FALSE), engine |-> Some("piper")],
                     [tts |-> Some(TRUE), engine |-> Some("piper")]},
        awareness \in {Missing(EmptyAwarenessConfig),
                       Some([EmptyAwarenessConfig EXCEPT !.enabled = Some(TRUE)])}}

\* load_config: the default for OSError (no file) and JSONDecodeError, else
\* what json.loads gave.  The UnicodeDecodeError of read_text is a
\* ValueError that is neither: it leaves load_config, and the file is kept
\* here in place of a value.
load_config(file) ==
    IF file.kind \in {"missing", "badjson"} THEN DefaultConfig ELSE file

\* config.json made load_config raise.
load_config_raised(cfg) == cfg.kind = "undecodable"

EventDoc(kind, event, cwd, session, permission, raw_notif_type, message) ==
    [kind |-> kind, hook_event_name |-> event, cwd |-> cwd,
     session_mode |-> session, permission_mode |-> permission,
     notification_type |-> raw_notif_type, message |-> message]

\* An event document that is not a JSON object with keys; as a dict, {}.
EventOther(kind) ==
    EventDoc(kind, Missing(""), Missing(""), Missing(""), Missing(""),
             Missing(""), Missing(""))

\* What the hook finds on stdin: text that is not JSON, JSON that is not an
\* object, a Stop-like event, or a Notification event.
StdinDocs ==
    {EventOther("badjson"), EventOther("notdict")}
    \cup
    {EventDoc("dict", hook_event_name, cwd, modes.session, modes.permission,
              Missing(""), Missing("")) :
        hook_event_name \in {Missing(""), Some("SubagentStop")},
        cwd \in {Missing(""), Some(ProjectDir)},
        modes \in {[session |-> Missing(""), permission |-> Missing("")],
                   [session |-> Some("delegate"), permission |-> Missing("")],
                   [session |-> Some("plan"), permission |-> Some("delegate")]}}
    \cup
    {EventDoc("dict", Some("Notification"), cwd, Missing(""), Missing(""),
              notif.type, notif.message) :
        cwd \in {Missing(""), Some(ProjectDir)},
        notif \in {[type |-> Missing(""), message |-> Missing("")],
                   [type |-> Some("idle_prompt"), message |-> Missing("")],
                   [type |-> Missing(""),
                    message |-> Some("Claude is Waiting For Input")],
                   [type |-> Some("auth_success"),
                    message |-> Some("build failed")]}}

\* json.load(sys.stdin), {} on JSONDecodeError / EOFError.
read_stdin(s) == IF s.kind = "badjson" THEN EventOther("dict") ELSE s

\* The letters str.lower() changes and what it changes them to.
ascii_uppercase == "ABCDEFGHIJKLMNOPQRSTUVWXYZ"

ascii_lowercase == "abcdefghijklmnopqrstuvwxyz"

\* One character of str.lower().
char_lower(c) ==
    IF \E i \in 1..Len(ascii_uppercase) : SubSeq(ascii_uppercase, i, i) = c
    THEN LET i == CHOOSE i \in 1..Len(ascii_uppercase) :
                      SubSeq(ascii_uppercase, i, i) = c
         IN  SubSeq(ascii_lowercase, i, i)
    ELSE c

\* A categorizer that does not fold case.
str_keep_case(s) == s

RECURSIVE str_lower(_)
\* message.lower(): every character lowered, the halves one after the other.
str_lower(s) ==
    IF Len(s) = 0 THEN ""
    ELSE IF Len(s) = 1 THEN char_lower(s)
    ELSE LET half == Len(s) \div 2
         IN  str_lower(SubSeq(s, 1, half))
                 \o str_lower(SubSeq(s, half + 1, Len(s)))

\* sub in s
str_contains(s, sub) ==
    \E i \in 0..(Len(s) - Len(sub)) : SubSeq(s, i + 1, i + Len(sub)) = sub

\* The ordered rules categorize_notification applies to message.lower();
\* the rule that decides is the first whose test holds.
category_rule(lower) ==
    IF str_contains(lower, "permission") /\ str_contains(lower, "use")
    THEN 1
    ELSE IF str_contains(lower, "waiting for your input")
            \/ str_contains(lower, "waiting for input")
    THEN 2
    ELSE IF \E k \in {"error", "failed", "exception", "critical"} :
                str_contains(lower, k)
    THEN 3
    ELSE IF \E k \in {"warning", "warn", "caution"} : str_contains(lower, k)
    THEN 4
    ELSE 5

\* categorize_notification
categorize_notification(message) ==
    IF message = "" THEN "general"
    ELSE <<"permission_request", "idle_timeout", "error", "warning",
           "general">>[category_rule(str_lower(message))]

\* A categorizer that looks for the warning keywords before the error
\* keywords.
categorize_warning_first(message) ==
    LET message_lower == str_lower(message)
    IN  IF message = "" THEN "GENERAL"
        ELSE IF /\ str_contains(message_lower, "permission")
                /\ str_contains(message_lower, "use")
        THEN "PERMISSION_REQUEST"
        ELSE IF \/ str_contains(message_lower, "waiting for your input")
                \/ str_contains(message_lower, "waiting for input")
        THEN "IDLE_TIMEOUT"
        ELSE IF \E keyword \in {"warning", "warn", "caution"} :
                    str_contains(message_lower, keyword)
        THEN "WARNING"
        ELSE IF \E keyword \in {"error", "failed", "exception", "critical"} :
                    str_contains(message_lower, keyword)
        THEN "ERROR"
        ELSE "GENERAL"

\* categorize_notification_message: the member of NotificationType returned.
categorize_notification_message(message) ==
    LET message_lower == str_lower(message)
    IN  IF message = "" THEN "GENERAL"
        ELSE IF /\ str_contains(message_lower, "permission")
                /\ str_contains(message_lower, "use")
        THEN "PERMISSION_REQUEST"
        ELSE IF \/ str_contains(message_lower, "waiting for your input")
                \/ str_contains(message_lower, "waiting for input")
        THEN "IDLE_TIMEOUT"
        ELSE IF \E keyword \in {"error", "failed", "exception", "critical"} :
                    str_contains(message_lower, keyword)
        THEN "ERROR"
        ELSE IF \E keyword \in {"warning", "warn", "caution"} :
                    str_contains(message_lower, keyword)
        THEN "WARNING"
        ELSE "GENERAL"

\* What a message is put together from: the messages of the handler's
\* test cases and of a failing tool, and pieces in which the keywords come
\* in another case, inside a longer word or split over two pieces.
Fragments ==
    {"Claude Code is requesting permission to use the Bash tool",
     "Claude Code is waiting for your input",
     "TypeError: x is not a function",
     "General system notification",
     "Permission Error ", "becaUSE ", "us", "e ",
     "Waiting For ", "input", "Build FAILED ", "critical exception ",
     "Warn", "ing: ", "Caution "}

RECURSIVE Messages(_)
\* The messages of at most n fragments, the empty message among them.
Messages(n) ==
    IF n = 0 THEN {""}
    ELSE Messages(n - 1)
         \cup {m \o f : m \in Messages(n - 1), f \in Fragments}

NoCategory == "-"

\* A message neither categorizer has seen yet.
Received(message) ==
    [message |-> message, pc |-> "received", tts |-> NoCategory,
     common |-> NoCategory]

\* No message at all.
NoCat == [Received("") EXCEPT !.pc = "idle"]

\* hooks/tts/handler.py categorizes it.
CategorizeTts ==
    /\ cat.pc = "received"
    /\ cat.tts = NoCategory
    /\ cat' = [cat EXCEPT !.tts = categorize_notification(cat.message)]
    /\ UNCHANGED exceptCat

\* hooks/common/utils.py categorizes it.
CategorizeCommon ==
    /\ cat.pc = "received"
    /\ cat.common = NoCategory
    /\ cat' = [cat EXCEPT !.common = categorize_notification_message(cat.message)]
    /\ UNCHANGED exceptCat

InitCatIdle == cat = NoCat

InitCat == \E message \in Messages(MaxFragments) : cat = Received(message)

NextCategorize == CategorizeTts \/ CategorizeCommon

(***************************************************************************)
(* Tool input: file paths and shell commands as text.                      *)
(***************************************************************************)
\* s.startswith(prefix)
str_startswith(s, prefix) ==
    Len(prefix) <= Len(s) /\ SubSeq(s, 1, Len(prefix)) = prefix

\* Positions of s that hold the character c.
Positions(s, c) == {i \in 1..Len(s) : SubSeq(s, i, i) = c}

Max(S) == CHOOSE x \in S : \A y \in S : y <= x

Min(S) == CHOOSE x \in S : \A y \in S : x <= y

\* command.strip(), for commands whose white space is blanks.
str_strip(s) ==
    LET inked == {i \in 1..Len(s) : SubSeq(s, i, i) # " "}
    IN  IF inked = {} THEN "" ELSE SubSeq(s, Min(inked), Max(inked))

RECURSIVE str_split(_)
\* shlex.split(s) and s.split() of a stripped command without quotes.
str_split(s) ==
    LET t == str_strip(s)
        blanks == Positions(t, " ")
    IN  IF t = "" THEN <<>>
        ELSE IF blanks = {} THEN <<t>>
        ELSE <<SubSeq(t, 1, Min(blanks) - 1)>>
                 \o str_split(SubSeq(t, Min(blanks) + 1, Len(t)))

\* Path(file_path).name, for a path that does not end in a slash.
path_name(file_path) ==
    LET slashes == Positions(file_path, "/")
    IN  IF slashes = {} THEN file_path
        ELSE SubSeq(file_path, Max(slashes) + 1, Len(file_path))

\* Path(file_path).suffix: from the last dot of the name, unless the name
\* starts or ends with it.
path_suffix(file_path) ==
    LET name == path_name(file_path)
        dots == Positions(name, ".")
    IN  IF dots = {} \/ Max(dots) = 1 \/ Max(dots) = Len(name) THEN ""
        ELSE SubSeq(name, Max(dots), Len(name))

(***************************************************************************)
(* The enums of hooks/common/enums.py, by the values of their members in   *)
(* definition order, and the functions of hooks/common/utils.py that       *)
(* convert to them.  A conversion that gives None gives "" here.           *)
(***************************************************************************)
ToolName ==
    <<"Read", "Write", "Edit", "MultiEdit", "NotebookRead", "NotebookEdit",
      "Bash", "Grep">>

FILE_OPERATION_TOOLS ==
    {"Read", "Write", "Edit", "MultiEdit", "NotebookRead", "NotebookEdit"}

FileExtension ==
    <<".py", ".md", ".js", "README.md", ".gitignore", "Dockerfile", "Makefile">>

GitCommand == <<"git status", "git commit", "git push">>

CommandType == <<"git", "npm", "docker">>

HookEvent == <<"PreToolUse", "PostToolUse", "Notification", "Stop", "SubagentStop">>

Range(seq) == {seq[i] : i \in DOMAIN seq}

\* safe_enum_from_string(enum_class, value): the member with this value,
\* else the first member whose value is the same up to case, else None.
safe_enum_from_string(enum_class, value) ==
    IF value = "" THEN ""
    ELSE IF value \in Range(enum_class) THEN value
    ELSE LET same == {i \in DOMAIN enum_class :
                         str_lower(enum_class[i]) = str_lower(value)}
         IN  IF same = {} THEN "" ELSE enum_class[Min(same)]

\* get_file_extension
get_file_extension(file_path) ==
    LET filename_lower == str_lower(path_name(file_path))
        extension == str_lower(path_suffix(file_path))
    IN  IF file_path = "" THEN ""
        ELSE IF filename_lower = "readme.md" THEN "README.md"
        ELSE IF filename_lower = ".gitignore" THEN ".gitignore"
        ELSE IF filename_lower = "dockerfile" THEN "Dockerfile"
        ELSE IF filename_lower = "makefile" THEN "Makefile"
        ELSE safe_enum_from_string(FileExtension, extension)

RECURSIVE skip_prefixes(_, _)
\* The first index from i on whose token is not a command prefix.
skip_prefixes(tokens, i) ==
    IF i <= Len(tokens)
       /\ tokens[i] \in {"sudo", "env", "nice", "time", "nohup"}
    THEN skip_prefixes(tokens, i + 1)
    ELSE i

RECURSIVE skip_flags(_, _)
\* The first index from i on whose token is not a flag of git, a flag that
\* takes an argument skipped together with the argument.
skip_flags(tokens, i) ==
    IF i <= Len(tokens) /\ str_startswith(tokens[i], "-")
    THEN IF tokens[i] \in {"-C", "-c", "--git-dir", "--work-tree", "--namespace"}
         THEN skip_flags(tokens, i + 2)
         ELSE skip_flags(tokens, i + 1)
    ELSE i

\* get_git_command
get_git_command(command) ==
    LET tokens == str_split(command)
        g == skip_prefixes(tokens, 1)
        i == skip_flags(tokens, g + 1)
    IN  IF command = "" \/ tokens = <<>> THEN ""
        ELSE IF g > Len(tokens) \/ tokens[g] # "git" THEN ""
        ELSE IF i > Len(tokens) THEN ""
        ELSE safe_enum_from_string(GitCommand, "git " \o tokens[i])

\* get_command_type
get_command_type(command) ==
    LET stripped == str_strip(command)
        found == {i \in DOMAIN CommandType :
                     \/ str_startswith(stripped, CommandType[i] \o " ")
                     \/ stripped = CommandType[i]}
    IN  IF command = "" \/ found = {} THEN "" ELSE CommandType[Min(found)]

\* is_file_operation_tool
is_file_operation_tool(tool_name) == tool_name \in FILE_OPERATION_TOOLS

(***************************************************************************)
(* The push handler's message cascade (hooks/notify/handler.py).  A JSON   *)
(* value of the mapping is a string, a list of strings or an object with   *)
(* a title and a message; the empty list and the empty object are values   *)
(* too.                                                                    *)
(***************************************************************************)
Str(text) == [kind |-> "str", title |-> "", texts |-> <<text>>]

List(texts) == [kind |-> "list", title |-> "", texts |-> texts]

Dict(title, message) == [kind |-> "dict", title |-> title, texts |-> <<message>>]

EmptyDict == [kind |-> "dict", title |-> "", texts |-> <<>>]

\* A key the object does not have.
Absent == [kind |-> "absent", title |-> "", texts |-> <<>>]

\* None, as a returned notification.
NoneData == [kind |-> "none", title |-> "", texts |-> <<>>]

\* bool(notification_data)
Truthy(data) == data # NoneData /\ data # EmptyDict

\* NotificationType.<member>.value
notification_type_value(member) ==
    CASE member = "PERMISSION_REQUEST" -> "permission_request"
      [] member = "IDLE_TIMEOUT" -> "idle_timeout"
      [] member = "ERROR" -> "error"
      [] member = "WARNING" -> "warning"
      [] member = "GENERAL" -> "general"

CategoryKeys ==
    {"permission_request", "idle_timeout", "error", "warning", "general"}

\* The keys an object under hook_events may have.
HookConfigKeys == CategoryKeys \cup {"default"} \cup Range(ToolName)

\* _select_variation: the values random.choice may return.
select_variation(messages) ==
    IF messages.kind \in {"str", "dict"} THEN {messages}
    ELSE IF messages.kind = "list" /\ messages.texts # <<>>
    THEN {Str(messages.texts[i]) : i \in DOMAIN messages.texts}
    ELSE {Str("Task completed")}

\* A cascade that returns the selected variation as it is.
keep_format(notification_data) == notification_data

\* _ensure_notification_format
ensure_notification_format(notification_data) ==
    IF notification_data.kind = "dict" THEN notification_data
    ELSE IF notification_data.kind = "str"
    THEN Dict("Claude Code", notification_data.texts[1])
    ELSE Dict("Claude Code", "Task completed")

\* _ensure_notification_format(_select_variation(messages)), with the place
\* of the cascade that produced it.
Resolved(via, messages) ==
    {[via |-> via, data |-> ensure_notification_format(v)] :
        v \in select_variation(messages)}

\* mapping["hook_events"][event] as an object, a string or list, or no key.
HookAbsent == [kind |-> "absent", scalar |-> Absent, keys |-> [k \in HookConfigKeys |-> Absent]]

HookScalar(messages) == [HookAbsent EXCEPT !.kind = "scalar", !.scalar = messages]

HookDict(keys) == [HookAbsent EXCEPT !.kind = "dict", !.keys = keys]

\* _get_notification_message; .get(NOTIFICATION, {}) makes a missing key
\* an object without keys.
get_notification_message(mapping, data) ==
    LET notification_config == mapping.hook_events["Notification"]
        message == Get(data, "message", "")
        config_key ==
            notification_type_value(categorize_notification_message(message))
    IN  IF notification_config.kind = "scalar"
        THEN Resolved("scalar", notification_config.scalar)
        ELSE IF message = ""
        THEN {[via |-> "none", data |-> NoneData]}
        ELSE IF notification_config.keys[config_key] # Absent
        THEN Resolved("category", notification_config.keys[config_key])
        ELSE IF notification_config.keys["default"] # Absent
        THEN Resolved("notification default",
                      notification_config.keys["default"])
        ELSE {[via |-> "none", data |-> NoneData]}

(***************************************************************************)
(* Context patterns.                                                       *)
(***************************************************************************)
\* bool(value) of a value of the mapping.
Falsy(value) == value \in {Absent, List(<<>>), EmptyDict, Str("")}

NoMatch == {[via |-> "none", data |-> NoneData]}

\* A JSON object of the mapping whose keys are not fixed: its key/value
\* pairs in the order of the file.  obj.get(key), Absent when there is none.
dict_get(obj, key) ==
    LET at == {i \in DOMAIN obj : obj[i][1] = key}
    IN  IF at = {} THEN Absent ELSE obj[Min(at)][2]

\* The file rules with the extension consulted before the exact filename.
extension_first(context_patterns, tool_name, tool_input) ==
    LET base_tool_name ==
            IF tool_name \in {"MultiEdit", "NotebookEdit"} THEN "Edit"
            ELSE IF tool_name = "NotebookRead" THEN "Read"
            ELSE tool_name
        tool_patterns == context_patterns.file_operations[base_tool_name]
        file_path == Get(tool_input, "file_path", "")
        file_extension == get_file_extension(file_path)
        filename == path_name(file_path)
    IN  IF file_path = "" THEN {[via |-> "none", data |-> NoneData]}
        ELSE IF file_extension # ""
                /\ dict_get(tool_patterns.by_extension, file_extension) # Absent
        THEN Resolved("by_extension",
                      dict_get(tool_patterns.by_extension, file_extension))
        ELSE IF dict_get(tool_patterns.by_filename, filename) # Absent
        THEN Resolved("by_filename",
                      dict_get(tool_patterns.by_filename, filename))
        ELSE IF tool_patterns.default \notin {Absent, List(<<>>), EmptyDict, Str("")}
        THEN Resolved("file default", tool_patterns.default)
        ELSE {[via |-> "none", data |-> NoneData]}

\* _get_file_operation_notification
file_operation_notification(context_patterns, tool_name, tool_input) ==
    LET base_tool_name ==
            IF tool_name \in {"MultiEdit", "NotebookEdit"} THEN "Edit"
            ELSE IF tool_name = "NotebookRead" THEN "Read"
            ELSE tool_name
        tool_patterns == context_patterns.file_operations[base_tool_name]
        file_path == Get(tool_input, "file_path", "")
        file_extension == get_file_extension(file_path)
        filename == path_name(file_path)
    IN  IF file_path = "" THEN NoMatch
        ELSE IF dict_get(tool_patterns.by_filename, filename) # Absent
        THEN Resolved("by_filename",
                      dict_get(tool_patterns.by_filename, filename))
        ELSE IF file_extension # ""
                /\ dict_get(tool_patterns.by_extension, file_extension) # Absent
        THEN Resolved("by_extension",
                      dict_get(tool_patterns.by_extension, file_extension))
        ELSE IF ~Falsy(tool_patterns.default)
        THEN Resolved("file default", tool_patterns.default)
        ELSE NoMatch

\* The entry of the first pattern, in the order of the object's keys, the
\* stripped command starts with.
first_prefix_match(cmd_patterns, command) ==
    LET hits == {i \in DOMAIN cmd_patterns :
                    str_startswith(str_strip(command), cmd_patterns[i][1])}
    IN  IF hits = {} THEN Absent ELSE cmd_patterns[Min(hits)][2]

\* _get_bash_command_notification
bash_command_notification(context_patterns, tool_input) ==
    LET bash_commands == context_patterns.bash_commands
        command == Get(tool_input, "command", "")
        git_command == get_git_command(command)
        command_type == get_command_type(command)
        git_patterns == bash_commands.by_type["git"]
        cmd_patterns == bash_commands.by_type[command_type]
        rest ==
            IF ~Falsy(bash_commands.default)
            THEN Resolved("bash default", bash_commands.default)
            ELSE NoMatch
    IN  IF command = "" THEN NoMatch
        ELSE IF /\ git_command # ""
                /\ git_patterns.kind = "dict"
                /\ dict_get(git_patterns.patterns, git_command) # Absent
        THEN Resolved("git", dict_get(git_patterns.patterns, git_command))
        ELSE IF command_type = "" THEN rest
        ELSE IF cmd_patterns.kind = "dict"
        THEN IF first_prefix_match(cmd_patterns.patterns, command) # Absent
             THEN Resolved("command type",
                           first_prefix_match(cmd_patterns.patterns, command))
             ELSE rest
        ELSE IF cmd_patterns.kind = "list"
        THEN Resolved("command list", cmd_patterns.list)
        ELSE rest

\* _get_context_notification
context_notification(mapping, tool_name, tool_input) ==
    IF is_file_operation_tool(tool_name)
    THEN file_operation_notification(mapping.context_patterns, tool_name,
                                     tool_input)
    ELSE IF tool_name = "Bash"
    THEN bash_command_notification(mapping.context_patterns, tool_input)
    ELSE NoMatch

\* get_context_aware_notification from the hook events on: lines 135-158.
hook_event_mapping(mapping, hook_event_name, tool_name) ==
    LET hook_config == mapping.hook_events[hook_event_name]
        fallback == {[via |-> "global default",
                      data |-> ensure_notification_format(mapping.default)]}
    IN  IF hook_config.kind = "absent" THEN fallback
        ELSE IF hook_config.kind = "dict"
        THEN IF tool_name.has /\ hook_config.keys[tool_name.v] # Absent
             THEN Resolved("hook tool", hook_config.keys[tool_name.v])
             ELSE IF hook_config.keys["default"] # Absent
             THEN Resolved("hook default", hook_config.keys["default"])
             ELSE fallback
        ELSE Resolved("hook event", hook_config.scalar)

\* Of the results a stage may give, those the cascade returns at once, and
\* whether some result makes it go on to the next stage.
ReturnedAtOnce(results) == {r \in results : Truthy(r.data)}

GoesOn(results) == \E r \in results : ~Truthy(r.data)

\* bool(tool_input) of the dict main reads from the event.
HasKeys(tool_input) == tool_input.file_path.has \/ tool_input.command.has

IsToolUse(hook_event_name) == hook_event_name \in {"PreToolUse", "PostToolUse"}

\* Lines 117-124: the context patterns.
context_stage(mapping, hook_event_name, tool_name, tool_input) ==
    IF IsToolUse(hook_event_name) /\ tool_name.has /\ HasKeys(tool_input)
    THEN context_notification(mapping, tool_name.v, tool_input)
    ELSE NoMatch

\* Lines 126-133: is there a plain tool mapping to return.
IsToolMapped(mapping, hook_event_name, tool_name) ==
    /\ IsToolUse(hook_event_name)
    /\ tool_name.has
    /\ mapping.tools[tool_name.v] # Absent

\* The cascade with the plain tool mapping consulted before the context
\* patterns.
tool_mapping_first(mapping, hook_event_name, tool_name, tool_input, data) ==
    LET a == IF hook_event_name = "Notification"
             THEN get_notification_message(mapping, data)
             ELSE NoMatch
        b == context_stage(mapping, hook_event_name, tool_name, tool_input)
        d == hook_event_mapping(mapping, hook_event_name, tool_name)
    IN  ReturnedAtOnce(a)
        \cup (IF ~GoesOn(a) THEN {}
              ELSE IF IsToolMapped(mapping, hook_event_name, tool_name)
              THEN Resolved("tool", mapping.tools[tool_name.v])
              ELSE ReturnedAtOnce(b) \cup (IF GoesOn(b) THEN d ELSE {}))

\* get_context_aware_notification: every result the call may return, with
\* the stage that returned it.
get_context_aware_notification(mapping, hook_event_name, tool_name, tool_input, data) ==
    LET a == IF hook_event_name = "Notification"
             THEN get_notification_message(mapping, data)
             ELSE NoMatch
        b == context_stage(mapping, hook_event_name, tool_name, tool_input)
        c == IF IsToolMapped(mapping, hook_event_name, tool_name)
             THEN Resolved("tool", mapping.tools[tool_name.v])
             ELSE hook_event_mapping(mapping, hook_event_name, tool_name)
    IN  ReturnedAtOnce(a)
        \cup (IF ~GoesOn(a) THEN {}
              ELSE ReturnedAtOnce(b) \cup (IF GoesOn(b) THEN c ELSE {}))

\* The values an entry of the mapping is given.
Entries(name) ==
    {Str(name), List(<<name, name \o ", again">>), Dict(name, name),
     List(<<>>), EmptyDict}

\* The objects under hook_events.Notification: at most one category has an
\* entry, or all have.
NotificationObjects ==
    {HookDict([k \in HookConfigKeys |->
                  IF k = key THEN entry
                  ELSE IF k = "default" THEN default
                  ELSE IF k = "Bash" THEN bash
                  ELSE Absent]) :
        key \in CategoryKeys, entry \in Entries("category") \cup {Absent},
        default \in {Absent, Str("hook default"),
                     List(<<"hook default", "hook default, again">>)},
        bash \in {Absent, Str("hook tool")}}
    \cup
    {HookDict([k \in HookConfigKeys |->
                  IF k \in CategoryKeys THEN Str("category")
                  ELSE IF k = "default" THEN Str("hook default")
                  ELSE Absent])}

\* A pattern object of bash_commands: no key, a list, or an object of
\* prefix/notification pairs.
NoPatterns == [kind |-> "absent", patterns |-> <<>>, list |-> Absent]

PatternDict(patterns) == [NoPatterns EXCEPT !.kind = "dict", !.patterns = patterns]

PatternList(list) == [NoPatterns EXCEPT !.kind = "list", !.list = list]

\* file_operations.<tool>
ToolPatterns(by_filename, by_extension, default) ==
    [by_filename |-> by_filename, by_extension |-> by_extension,
     default |-> default]

NoToolPatterns == ToolPatterns(<<>>, <<>>, Absent)

\* mapping["context_patterns"], the patterns of Edit and of the shell given.
ContextPatterns(edit, git, npm, default) ==
    [file_operations |->
        [t \in {"Read", "Write", "Edit"} |->
            IF t = "Edit" THEN edit ELSE NoToolPatterns],
     bash_commands |->
        [by_type |-> [c \in Range(CommandType) |->
                         IF c = "git" THEN git
                         ELSE IF c = "npm" THEN npm
                         ELSE NoPatterns],
         default |-> default]]

\* mapping.get("context_patterns", {})
NoContextPatterns ==
    ContextPatterns(NoToolPatterns, NoPatterns, NoPatterns, Absent)

NoTools == [t \in Range(ToolName) |-> Absent]

\* No key under hook_events but those given.
HookEvents(notification, stop, tool_use) ==
    [e \in Range(HookEvent) |->
        IF e = "Notification" THEN notification
        ELSE IF e = "Stop" THEN stop
        ELSE IF IsToolUse(e) THEN tool_use
        ELSE HookAbsent]

\* What load_notification_mapping may return: the mapping file's content
\* or, when it cannot be read, the built-in mapping.
FallbackMapping ==
    [hook_events |-> HookEvents(HookScalar(Str("Claude notification")),
                                HookScalar(Str("Task completed")), HookAbsent),
     tools |-> [t \in Range(ToolName) |->
                   IF t = "Read" THEN Str("Reading file")
                   ELSE IF t = "Edit" THEN Str("Editing code")
                   ELSE IF t = "Bash" THEN Str("Running command")
                   ELSE Absent],
     context_patterns |-> NoContextPatterns,
     default |-> Dict("Claude Code", "Task completed")]

\* The mappings that differ in what they say of Notification events.
Mappings ==
    {FallbackMapping}
    \cup
    {[hook_events |-> HookEvents(notification, stop, HookAbsent),
      tools |-> NoTools,
      context_patterns |-> NoContextPatterns,
      default |-> Dict("Claude Code", "global default")] :
        notification \in NotificationObjects \cup {HookAbsent},
        stop \in {HookAbsent, HookScalar(Str("Task completed"))}}

\* The patterns of a file tool: each rule there or not, the exact-filename
\* rule also with an empty object for its notification.
FilePatterns ==
    {ToolPatterns(by_filename, by_extension, default) :
        by_filename \in {<<>>,
                         <<<<"README.md", Str("by_filename")>>>>,
                         <<<<"README.md", EmptyDict>>>>},
        by_extension \in {<<>>,
                          <<<<".py", Str("by_extension")>>,
                            <<"README.md", Str("by_extension")>>>>},
        default \in {Absent, List(<<>>), Str("file default")}}

\* The patterns of the shell: the git subcommands, the npm prefixes in
\* either order or a list for npm, and the default.
ShellPatterns ==
    {[git |-> git, npm |-> npm, default |-> default] :
        git \in {NoPatterns,
                 PatternDict(<<<<"git status", Str("git")>>,
                               <<"git commit", Str("git")>>>>)},
        npm \in {NoPatterns,
                 PatternList(List(<<"npm", "npm, again">>)),
                 PatternDict(<<<<"npm run", Str("npm run")>>,
                               <<"npm", Str("npm")>>>>),
                 PatternDict(<<<<"npm", Str("npm")>>,
                               <<"npm run", Str("npm run")>>>>)},
        default \in {Absent, Str("bash default")}}

\* The mappings that differ in what they say of tool-use events.
ToolMappings ==
    {[hook_events |-> HookEvents(HookAbsent, HookAbsent, tool_use),
      tools |-> tools,
      context_patterns |-> context_patterns,
      default |-> Dict("Claude Code", "global default")] :
        tool_use \in {HookAbsent, HookScalar(Str("hook event")),
                      HookDict([k \in HookConfigKeys |->
                                   IF k = "Bash" THEN Str("hook tool")
                                   ELSE IF k = "default"
                                   THEN Str("hook default")
                                   ELSE Absent])},
        tools \in {NoTools, [t \in Range(ToolName) |-> Str("tool")]},
        context_patterns \in
            {ContextPatterns(edit, NoPatterns, NoPatterns, Absent) :
                edit \in FilePatterns}
            \cup
            {ContextPatterns(NoToolPatterns, sh.git, sh.npm, sh.default) :
                sh \in ShellPatterns}}

NoToolInput == [file_path |-> Missing(""), command |-> Missing("")]

\* The Notification and Stop events the cascade is called with.
CascadeEvents ==
    {[hook_event_name |-> hook_event_name, tool_name |-> tool_name,
      tool_input |-> NoToolInput, message |-> message] :
        hook_event_name \in {"Notification", "Stop"},
        tool_name \in {Missing(""), Some("Bash")},
        message \in {Missing(""), Some(""),
                     Some("Claude Code is requesting permission to use the Bash tool"),
                     Some("Claude Code is waiting for your input"),
                     Some("TypeError: x is not a function"),
                     Some("warning: low disk"),
                     Some("General system notification")}}

\* The tool inputs: none, a file path, a command.
ToolInputs ==
    {NoToolInput}
    \cup
    {[NoToolInput EXCEPT !.file_path = Some(file_path)] :
        file_path \in {"", "src/app.py", "docs/README.md", "readme.md",
                       "lib/Main.PY", "notes.txt"}}
    \cup
    {[NoToolInput EXCEPT !.command = Some(command)] :
        command \in {"git status", "sudo git -C repo commit -m x",
                     "git stash", "npm run build", "  npm install",
                     "ls -la"}}

\* The tool-use events the cascade is called with.
ToolEvents ==
    {[hook_event_name |-> hook_event_name, tool_name |-> tool_name,
      tool_input |-> tool_input, message |-> Missing("")] :
        hook_event_name \in {"PreToolUse", "PostToolUse"},
        tool_name \in {Missing(""), Some("Read"), Some("Edit"),
                       Some("MultiEdit"), Some("Bash"), Some("Grep")},
        tool_input \in ToolInputs}

NoResult == [via |-> "-", data |-> NoneData]

NoStdin ==
    [kind |-> "dict", hook_event_name |-> Missing(""),
     tool_name |-> Missing(""), tool_input |-> NoToolInput,
     message |-> Missing("")]

NoResolution ==
    [pc |-> "idle", mapping |-> FallbackMapping, stdin |-> NoStdin,
     event |-> [hook_event_name |-> "Stop", tool_name |-> Missing(""),
                tool_input |-> NoToolInput, message |-> Missing("")],
     result |-> NoResult]

\* main's call of get_context_aware_notification.
Resolve ==
    /\ resolution.pc = "call"
    /\ \E r \in get_context_aware_notification(
                    resolution.mapping, resolution.event.hook_event_name,
                    resolution.event.tool_name, resolution.event.tool_input,
                    resolution.event) :
        resolution' = [resolution EXCEPT !.pc = "returned", !.result = r]
    /\ UNCHANGED exceptCascade

InitCascadeIdle == resolution = NoResolution

\* A call: a mapping and an event.
Called(mapping, event) ==
    [NoResolution EXCEPT !.pc = "call", !.mapping = mapping, !.event = event]

InitCascade ==
    \/ \E mapping \in Mappings, event \in CascadeEvents :
          resolution = Called(mapping, event)
    \/ \E mapping \in ToolMappings, event \in ToolEvents :
          resolution = Called(mapping, event)

NextCascade == Resolve

\* get_message(event_type, None, notification_type) with the built-in
\* templates, one message kept of each pool random.choice draws from.
get_message(event_type, sub_type) ==
    IF event_type = "Notification" /\ sub_type # None
    THEN {"Notification."}
    ELSE {"Task complete."}

\* message_hash: sha256 of the text, as the number of the cache key.
message_hash(text) ==
    IF text = "Task complete." THEN 1
    ELSE IF text = "project:a" THEN 2
    ELSE 3

\* f"project:{project_name}"
project_text(project_name) == "project:a"

\* The artifact file a renderer writes for a cache key.
WavPath(h) == <<"1.wav", "2.wav", "3.wav", "4.wav">>[h]

\* An effect of an invocation that leaves the process: a player run, a
\* process spawned, a push sent.
Effect(op, a, b) == [op |-> op, a |-> a, b |-> b]

\* should_tts = tier is None or tier == AwarenessTier.NEARBY
should_tts(t) == t = None \/ t = NEARBY

\* The tier gate with NEARBY let through to the push channel.
should_push_unless_focused(t) == t # FOCUSED

\* should_push = tier is None or tier == AwarenessTier.AWAY
should_push(t) == t = None \/ t = AWAY

\* use_dynamic
use_dynamic(cfg) ==
    Get(cfg, "dynamic_tts", FALSE) /\ cfg.tts_engine = Some("piper")

SpeakResult(d, fs, effects, raised) ==
    [doc |-> d, files |-> fs, out |-> effects, raised |-> raised]

\* The sequence with the message before the project name.
sequence_message_first(proj_wav, msg_wav) ==
    Effect("play_sequence", msg_wav, proj_wav)

\* play_sequence([proj_wav, msg_wav], volume, speed)
sequence_of(proj_wav, msg_wav) == Effect("play_sequence", proj_wav, msg_wav)

\* An audio branch that plays whatever is cached and has nothing rendered.
play_first_cached(d, fs, project_name, text, now) ==
    LET any == get_any_cached_file(d, fs)
    IN  SpeakResult(d, fs,
                    IF any.val \in {None, "raise"} THEN <<>>
                    ELSE <<Effect("play_audio", any.val, None)>>,
                    any.val = "raise")

\* The template-audio branch: look the artifacts up, play what is cached,
\* have the rest rendered in the background.
play_cached(d, fs, project_name, text, now) ==
    LET msg == lookup(d, fs, message_hash(text), now)
        render_text == Effect("spawn_background_generate", "--text", None)
        render_project == Effect("spawn_background_generate", "--project", None)
    IN  IF msg.val = "raise" THEN SpeakResult(d, fs, <<>>, TRUE)
        ELSE IF project_name # <<>>
        THEN LET proj == lookup(msg.doc, msg.files,
                                message_hash(project_text(project_name)), now)
                 fallback == get_any_cached_file(proj.doc, proj.files)
             IN  IF proj.val # None /\ msg.val # None
                 THEN SpeakResult(proj.doc, proj.files,
                          <<sequence_of(proj.val, msg.val)>>, FALSE)
                 ELSE IF proj.val # None
                 THEN SpeakResult(proj.doc, proj.files,
                          <<Effect("play_audio", proj.val, None), render_text>>,
                          FALSE)
                 ELSE IF msg.val # None
                 THEN SpeakResult(proj.doc, proj.files,
                          <<Effect("play_audio", msg.val, None), render_project>>,
                          FALSE)
                 ELSE SpeakResult(proj.doc, proj.files,
                          (IF fallback.val # None
                           THEN <<Effect("play_audio", fallback.val, None)>>
                           ELSE <<>>) \o <<render_text, render_project>>, FALSE)
        ELSE LET fallback == get_any_cached_file(msg.doc, msg.files)
             IN  IF msg.val # None
                 THEN SpeakResult(msg.doc, msg.files,
                          <<Effect("play_audio", msg.val, None)>>, FALSE)
                 ELSE SpeakResult(msg.doc, msg.files,
                          (IF fallback.val # None
                           THEN <<Effect("play_audio", fallback.val, None)>>
                           ELSE <<>>) \o <<render_text>>, FALSE)

\* The audio part of main: dynamic commentary, template audio, or nothing.
speak(d, fs, cfg, t, project_name, text, now) ==
    IF use_dynamic(cfg) /\ should_tts(t)
    THEN SpeakResult(d, fs, <<Effect("spawn_gladosify", None, None)>>, FALSE)
    ELSE IF should_tts(t) /\ Get(cfg, "sound_enabled", TRUE)
    THEN play_cached(d, fs, project_name, text, now)
    ELSE SpeakResult(d, fs, <<>>, FALSE)

\* The push part of main.
push(cfg, t, topic) ==
    IF topic.has /\ should_push(t) /\ Get(cfg, "ntfy_enabled", TRUE)
    THEN <<Effect("send_ntfy", topic.v, None)>>
    ELSE <<>>

Running == [at |-> None, status |-> 0]

\* sys.exit(status), or an exception nobody catches (status 1).
Exit(at, status) ==
    /\ mpc' = "end"
    /\ exited' = [at |-> at, status |-> status]

Goto(to) ==
    /\ mpc' = to
    /\ UNCHANGED exited

Unset == "Unset"

\* parser.parse_args()
ParseArgs ==
    /\ mpc = "parse_args"
    /\ \E topic \in {Missing(""), Some("topic")} : ntfy_topic' = topic
    /\ Goto("mute")
    /\ UNCHANGED <<config, input_data, notification_type, tier, out,
                   sentinels, marker, notify, exceptMain>>

\* if MUTE_FILE.exists(): sys.exit(0)
CheckMute ==
    /\ mpc = "mute"
    /\ IF sentinels.muted THEN Exit("mute", 0) ELSE Goto("load_config")
    /\ UNCHANGED <<ntfy_topic, config, input_data, notification_type, tier, out,
                   sentinels, marker, notify, exceptMain>>

\* config = load_config()
LoadConfig ==
    /\ mpc = "load_config"
    /\ \E file \in ConfigFiles :
           /\ config' = load_config(file)
           /\ IF load_config_raised(load_config(file))
              THEN Exit("raise", 1) ELSE Goto("enabled")
    /\ UNCHANGED <<ntfy_topic, input_data, notification_type, tier, out,
                   sentinels, marker, notify, exceptMain>>

\* if not config.get("enabled", True): sys.exit(0)
CheckEnabled ==
    /\ mpc = "enabled"
    /\ IF config.kind # "dict" THEN Exit("raise", 1)
       ELSE IF ~Get(config, "enabled", TRUE) THEN Exit("enabled", 0)
       ELSE Goto("stdin")
    /\ UNCHANGED <<ntfy_topic, config, input_data, notification_type, tier, out,
                   sentinels, marker, notify, exceptMain>>

\* input_data = json.load(sys.stdin)
ReadStdin ==
    /\ mpc = "stdin"
    /\ \E s \in StdinDocs : input_data' = read_stdin(s)
    /\ Goto("suppress")
    /\ UNCHANGED <<ntfy_topic, config, notification_type, tier, out,
                   sentinels, marker, notify, exceptMain>>

\* event_type = input_data.get(...); the per-project suppress check.
CheckSuppress ==
    /\ mpc = "suppress"
    /\ IF input_data.kind # "dict" THEN Exit("raise", 1)
       ELSE IF Get(input_data, "cwd", "") # ""
               /\ Get(input_data, "cwd", "") \in sentinels.suppressed
       THEN Exit("suppress", 0)
       ELSE Goto("delegate")
    /\ UNCHANGED <<ntfy_topic, config, input_data, notification_type, tier, out,
                   sentinels, marker, notify, exceptMain>>

\* A delegate check that comes after the cooldown marker is written.
mark_then_check_delegate ==
    /\ mpc = "delegate"
    /\ IF /\ Get(config, "suppress_delegate_mode", TRUE)
          /\ \/ Get(input_data, "session_mode", "") = "delegate"
             \/ Get(input_data, "permission_mode", "") = "delegate"
       THEN Exit("delegate", 0) /\ marker' = Some(IDLE_COOLDOWN_SECONDS)
       ELSE Goto("notification") /\ UNCHANGED marker
    /\ UNCHANGED <<ntfy_topic, config, input_data, notification_type, tier, out,
                   sentinels, notify, exceptMain>>

\* Suppress for delegate (agent) sessions.
CheckDelegate ==
    /\ mpc = "delegate"
    /\ IF /\ Get(config, "suppress_delegate_mode", TRUE)
          /\ \/ Get(input_data, "session_mode", "") = "delegate"
             \/ Get(input_data, "permission_mode", "") = "delegate"
       THEN Exit("delegate", 0)
       ELSE Goto("notification")
    /\ UNCHANGED <<ntfy_topic, config, input_data, notification_type, tier, out,
                   sentinels, marker, notify, exceptMain>>

\* A cooldown that is never on.
is_idle_on_cooldown_never(m, now) == FALSE

\* A cooldown that still holds when exactly IDLE_COOLDOWN_SECONDS have passed.
is_idle_on_cooldown_inclusive(m, now) ==
    m.has /\ (now - m.v) <= IDLE_COOLDOWN_SECONDS

\* is_idle_on_cooldown at time now.
is_idle_on_cooldown(m, now) == m.has /\ (now - m.v) < IDLE_COOLDOWN_SECONDS

\* The times at which the cooldown marker is read.
CooldownTimes == {IDLE_COOLDOWN_SECONDS - 1, IDLE_COOLDOWN_SECONDS}

\* The notification sub-type and the idle cooldown.
ClassifyNotification ==
    /\ mpc = "notification"
    /\ IF Get(input_data, "hook_event_name", "Stop") # "Notification"
       THEN /\ notification_type' = None
            /\ Goto("awareness")
            /\ UNCHANGED marker
       ELSE LET category ==
                    categorize_notification(Get(input_data, "message", ""))
                is_idle ==
                    \/ Get(input_data, "notification_type", "") = "idle_prompt"
                    \/ category = "idle_timeout"
            IN  IF ~is_idle
                THEN /\ notification_type' = category
                     /\ Goto("awareness")
                     /\ UNCHANGED marker
                ELSE /\ notification_type' = "idle_timeout"
                     /\ \E now \in CooldownTimes :
                            IF is_idle_on_cooldown(marker, now)
                            THEN Exit("cooldown", 0) /\ UNCHANGED marker
                            ELSE Goto("awareness") /\ marker' = Some(now)
    /\ UNCHANGED <<ntfy_topic, config, input_data, tier, out,
                   sentinels, notify, exceptMain>>

\* tier = detect_awareness(config, project_name)
DetectTier ==
    /\ mpc = "awareness"
    /\ LET awareness_cfg == Get(config, "awareness", EmptyAwarenessConfig)
           project_name == extract_project_name(Get(input_data, "cwd", ""))
       IN  \E os \in OSResults(awareness_cfg, project_name) :
               tier' = detect_awareness(awareness_cfg, project_name, os)
    /\ Goto("speak")
    /\ UNCHANGED <<ntfy_topic, config, input_data, notification_type, out,
                   sentinels, marker, notify, exceptMain>>

\* The text is selected and the audio channel is served.
Speak ==
    /\ mpc = "speak"
    /\ \E text \in get_message(Get(input_data, "hook_event_name", "Stop"),
                               notification_type) :
        LET r == speak(doc, files, config, tier,
                       extract_project_name(Get(input_data, "cwd", "")),
                       text, Now)
        IN  /\ doc' = r.doc
            /\ files' = r.files
            /\ clock' = Now
            /\ out' = out \o r.out
            /\ IF r.raised THEN Exit("raise", 1) ELSE Goto("push")
    /\ UNCHANGED <<ntfy_topic, config, input_data, notification_type, tier,
                   sentinels, marker, notify, ret, playVars, awareVars,
                   raceVars, catVars, cascadeVars, renderVars, cooldownVars>>

\* The push channel is served and main returns: sys.exit(0).
Push ==
    /\ mpc = "push"
    /\ out' = out \o push(config, tier, ntfy_topic)
    /\ Exit("done", 0)
    /\ UNCHANGED <<ntfy_topic, config, input_data, notification_type, tier,
                   sentinels, marker, notify, exceptMain>>

\* hooks/notify/handler.py main, run for the same event (the two hook
\* commands share no state; the push handler is taken after the other has
\* ended).  It reads no sentinel and no config: whatever stdin holds, it
\* sends one push, and exits with 1 when the push could not be delivered.
\* The title and message it sends are not part of this record.
NotifyMain ==
    /\ mpc = "end"
    /\ notify.pc = "start"
    /\ \E delivered \in BOOLEAN :
        notify' = [pc |-> "end",
                   out |-> <<Effect("send_push_notification",
                                    IF delivered THEN "delivered" ELSE "failed",
                                    None)>>,
                   status |-> IF delivered THEN 0 ELSE 1]
    /\ UNCHANGED <<mpc, exited, ntfy_topic, config, input_data,
                   notification_type, tier, out, sentinels, marker, exceptMain>>

(***************************************************************************)
(* The push handler's main (hooks/notify/handler.py 328-435), step by      *)
(* step: stdin is parsed, the notification is resolved, the push is sent.  *)
(***************************************************************************)
\* The pair main falls back to: lines 388, 404 and 420.
DefaultNotification == Dict("Claude Code", "Task completed")

\* What stdin holds for the push handler: text that is not JSON, JSON that
\* is not an object, or an event whose names are still text.
NotifyStdin ==
    {[kind |-> kind, hook_event_name |-> Missing(""),
      tool_name |-> Missing(""), tool_input |-> NoToolInput,
      message |-> Missing("")] : kind \in {"badjson", "notdict"}}
    \cup
    {[kind |-> "dict", hook_event_name |-> hook_event_name,
      tool_name |-> tool_name, tool_input |-> tool_input,
      message |-> message] :
        hook_event_name \in {Missing(""), Some("Stop"), Some("notification"),
                             Some("Notification"), Some("PreToolUse"),
                             Some("UnknownEvent")},
        tool_name \in {Missing(""), Some("Bash"), Some("UnknownTool")},
        tool_input \in {NoToolInput,
                        [NoToolInput EXCEPT !.command = Some("git status")]},
        message \in {Missing(""), Some("General system notification"),
                     Some("TypeError: x is not a function")}}

\* An event name main does not know taken for Stop.
get_hook_event_or_stop(hook_data) ==
    LET known == safe_enum_from_string(HookEvent,
                                       Get(hook_data, "hook_event_name", ""))
    IN  IF known = "" THEN "Stop" ELSE known

\* get_hook_event, "" for None.
get_hook_event(hook_data) ==
    safe_enum_from_string(HookEvent, Get(hook_data, "hook_event_name", ""))

\* get_tool_name
get_tool_name(hook_data) ==
    LET name == safe_enum_from_string(ToolName, Get(hook_data, "tool_name", ""))
    IN  IF name = "" THEN Missing("") ELSE Some(name)

\* Lines 351-360: json.load and the conversions.  Text that is not JSON
\* raises JSONDecodeError, JSON that is not an object raises at the first
\* input_data.get; both handlers send the default notification.
NotifyParse ==
    /\ notify.pc = "start"
    /\ resolution.pc = "stdin"
    /\ LET stdin == resolution.stdin
       IN  IF stdin.kind # "dict"
           THEN /\ resolution' =
                     [resolution EXCEPT
                         !.pc = "raised",
                         !.result = [via |-> IF stdin.kind = "badjson"
                                             THEN "JSONDecodeError"
                                             ELSE "Exception",
                                     data |-> DefaultNotification]]
                /\ notify' = [notify EXCEPT !.pc = "send"]
           ELSE /\ resolution' =
                     [resolution EXCEPT
                         !.pc = "call",
                         !.event = [hook_event_name |-> get_hook_event(stdin),
                                    tool_name |-> get_tool_name(stdin),
                                    tool_input |-> stdin.tool_input,
                                    message |-> stdin.message]]
                /\ notify' = [notify EXCEPT !.pc = "parsed"]
    /\ UNCHANGED exceptNotify

\* Lines 384-388: the cascade for an event main knows, the built-in pair
\* for one it does not.
NotifyResolve ==
    /\ notify.pc = "parsed"
    /\ \E r \in IF resolution.event.hook_event_name # ""
                THEN get_context_aware_notification(
                         resolution.mapping, resolution.event.hook_event_name,
                         resolution.event.tool_name,
                         resolution.event.tool_input, resolution.event)
                ELSE {[via |-> "unknown event", data |-> DefaultNotification]} :
        resolution' = [resolution EXCEPT !.pc = "returned", !.result = r]
    /\ notify' = [notify EXCEPT !.pc = "send"]
    /\ UNCHANGED exceptNotify

\* Lines 390-435: the push is sent; sys.exit(1) when it was not delivered,
\* sys.exit(0) otherwise.
NotifySend ==
    /\ notify.pc = "send"
    /\ \E delivered \in BOOLEAN :
        notify' = [pc |-> "end",
                   out |-> <<Effect("send_push_notification",
                                    resolution.result.data.title,
                                    resolution.result.data.texts[1])>>,
                   status |-> IF delivered THEN 0 ELSE 1]
    /\ UNCHANGED <<resolution, exceptNotify>>

InitNotify ==
    /\ notify = [pc |-> "start", out |-> <<>>, status |-> 0]
    /\ \E mapping \in Mappings, stdin \in NotifyStdin :
          resolution = [NoResolution EXCEPT !.pc = "stdin",
                                            !.mapping = mapping,
                                            !.stdin = stdin]

NextNotify == NotifyParse \/ NotifyResolve \/ NotifySend

\* The cache as earlier invocations and renders can have left it.
Entry(h) == [h |-> h, path |-> WavPath(h), la |-> 0]

MainCaches ==
    {[doc |-> Broken("missing"), files |-> {}],
     [doc |-> Broken("notindex"), files |-> {WavPath(1)}],
     [doc |-> Index(<<Entry(1)>>), files |-> {WavPath(1)}],
     [doc |-> Index(<<Entry(2)>>), files |-> {WavPath(2)}],
     [doc |-> Index(<<Entry(2), Entry(1)>>), files |-> {WavPath(1), WavPath(2)}],
     [doc |-> Index(<<Entry(1), Entry(3)>>), files |-> {WavPath(3)}]}

InitMainIdle ==
    /\ mpc = "end"
    /\ exited = Running
    /\ ntfy_topic = Missing("")
    /\ config = ConfigOther(Unset)
    /\ input_data = EventOther(Unset)
    /\ notification_type = None
    /\ tier = Unset
    /\ out = <<>>
    /\ sentinels = [muted |-> FALSE, suppressed |-> {}]
    /\ marker = Missing(0)
    /\ notify = [pc |-> "end", out |-> <<>>, status |-> 0]

InitMainCache ==
    /\ \E c \in MainCaches : doc = c.doc /\ files = c.files
    /\ clock = 0
    /\ ret = NoCall

InitMain ==
    /\ mpc = "parse_args"
    /\ exited = Running
    /\ ntfy_topic = Missing("")
    /\ config = ConfigOther(Unset)
    /\ input_data = EventOther(Unset)
    /\ notification_type = None
    /\ tier = Unset
    /\ out = <<>>
    /\ sentinels \in [muted : BOOLEAN, suppressed : SUBSET {ProjectDir}]
    /\ marker \in {Missing(0), Some(0)}
    /\ notify = [pc |-> "start", out |-> <<>>, status |-> 0]

NextMain ==
    \/ ParseArgs
    \/ CheckMute
    \/ LoadConfig
    \/ CheckEnabled
    \/ ReadStdin
    \/ CheckSuppress
    \/ CheckDelegate
    \/ ClassifyNotification
    \/ DetectTier
    \/ Speak
    \/ Push
    \/ NotifyMain

(***************************************************************************)
(* Concurrent cache calls (hooks/tts/cache_manager.py): the calls of       *)
(* several processes taken apart into the steps at which they touch the    *)
(* shared index document and the artifact files.  Nothing synchronises     *)
(* them.  _save_index is Path.write_text: the file is opened, which        *)
(* truncates it, and the text is written afterwards from offset 0, so a    *)
(* reader in between finds a document that does not parse, and a text      *)
(* written over a longer one written since the open leaves the tail of     *)
(* the longer one behind it.                                               *)
(***************************************************************************)
RaceProcs == {"p", "q"}

IdleRacer ==
    [pc |-> "idle", op |-> None, h |-> 0, index |-> <<>>, drop |-> {},
     val |-> None, stale |-> FALSE, clobbered |-> FALSE]

\* A process between two calls, val being what its last call returned
\* ("raise" when an exception left it).
RaceReturned(val) == [IdleRacer EXCEPT !.val = val]

\* lookup: index = _load_index(); entry = index["entries"].get(text_hash)
RaceLookupLoad(p) ==
    \E h \in Hashes :
        LET index == load_index(doc)
        IN  /\ racers[p].pc = "idle"
            /\ racers' = [racers EXCEPT ![p] =
                    IF ~HasEntries(index)
                    THEN RaceReturned("raise")
                    ELSE IF h \notin Keys(index.entries)
                    THEN RaceReturned(None)
                    ELSE [IdleRacer EXCEPT !.op = "lookup", !.h = h,
                                           !.pc = "exists",
                                           !.index = index.entries]]
            /\ UNCHANGED <<doc, files, clock, ret, exceptRace>>

\* lookup: wav_path.exists(), then the entry is deleted or refreshed.
RaceLookupExists(p) ==
    LET r == racers[p]
        i == Pos(r.index, r.h)
    IN  /\ r.pc = "exists"
        /\ racers' = [racers EXCEPT ![p] =
                IF r.index[i].path \in files
                THEN [r EXCEPT !.pc = "open",
                               !.index = [r.index EXCEPT ![i].la = Now],
                               !.val = r.index[i].path]
                ELSE [r EXCEPT !.pc = "open",
                               !.index = Without(r.index, {i}),
                               !.stale = TRUE]]
        /\ clock' = Now
        /\ UNCHANGED <<doc, files, ret, exceptRace>>

\* The renderer writes the artifact of h before it calls store.
RaceRender(p) ==
    \E h \in Hashes :
        /\ racers[p].pc = "idle"
        /\ files' = files \cup {WavPath(h)}
        /\ racers' = [racers EXCEPT ![p] =
                [IdleRacer EXCEPT !.op = "store", !.h = h, !.pc = "load"]]
        /\ UNCHANGED <<doc, clock, ret, exceptRace>>

\* store: index = _load_index(), the entry is put, _evict pops the keys.
RaceStoreLoad(p) ==
    LET r == racers[p]
        index == load_index(doc)
        es == Put(index.entries, r.h, WavPath(r.h), Now)
        drop == IF Len(es) > MaxEntries
                THEN EvictedPositions(es, MaxEntries) ELSE {}
    IN  /\ r.pc = "load"
        /\ racers' = [racers EXCEPT ![p] =
                IF ~HasEntries(index)
                THEN RaceReturned("raise")
                ELSE [r EXCEPT !.pc = IF drop = {} THEN "open" ELSE "unlink",
                               !.index = Without(es, drop),
                               !.drop = {es[i].path : i \in drop}]]
        /\ clock' = Now
        /\ UNCHANGED <<doc, files, ret, exceptRace>>

\* _evict: Path(entry["path"]).unlink(missing_ok=True) for the popped keys.
RaceUnlink(p) ==
    /\ racers[p].pc = "unlink"
    /\ files' = files \ racers[p].drop
    /\ racers' = [racers EXCEPT ![p].pc = "open", ![p].drop = {}]
    /\ UNCHANGED <<doc, clock, ret, exceptRace>>

\* _save_index: the index file is opened for writing and so truncated.
RaceOpen(p) ==
    /\ racers[p].pc = "open"
    /\ doc' = Broken("badjson")
    /\ racers' = [racers EXCEPT ![p].pc = "write", ![p].clobbered = FALSE]
    /\ UNCHANGED <<files, clock, ret, exceptRace>>

\* _save_index: the text is written from offset 0.  When another process
\* has written since p opened the file, and wrote more, its tail stays.
RaceWrite(p) ==
    LET r == racers[p]
    IN  /\ r.pc = "write"
        /\ \E tail \in (IF r.clobbered THEN BOOLEAN ELSE {FALSE}) :
                doc' = IF tail THEN Broken("badjson") ELSE Index(r.index)
        /\ racers' = [q \in RaceProcs |->
                IF q = p
                THEN RaceReturned(r.val)
                ELSE IF racers[q].pc = "write"
                THEN [racers[q] EXCEPT !.clobbered = TRUE]
                ELSE racers[q]]
        /\ UNCHANGED <<files, clock, ret, exceptRace>>

\* get_any_cached_file
RaceAnyCached(p) ==
    LET r == get_any_cached_file(doc, files)
    IN  /\ racers[p].pc = "idle"
        /\ racers' = [racers EXCEPT ![p] =
                RaceReturned(r.val)]
        /\ UNCHANGED <<doc, files, clock, ret, exceptRace>>

InitRaceIdle == racers = [p \in RaceProcs |-> IdleRacer]

NextRace ==
    \E p \in RaceProcs :
        \/ RaceLookupLoad(p)
        \/ RaceLookupExists(p)
        \/ RaceRender(p)
        \/ RaceStoreLoad(p)
        \/ RaceUnlink(p)
        \/ RaceOpen(p)
        \/ RaceWrite(p)
        \/ RaceAnyCached(p)

(***************************************************************************)
(* Background renders (hooks/tts/generate_piper.py and generate.py,        *)
(* generate_single / generate_project) next to a handler that plays the    *)
(* artifact.  A handler invocation that misses the text spawns a render    *)
(* of it (spawn_background_generate) and goes on; the renders of the       *)
(* model are the processes that can be running at a time.                  *)
(* A render looks the hash up and returns on a hit; otherwise              *)
(* it synthesizes, writes the WAV file in place under the path the hash    *)
(* gives (wave.open(path, "wb") / torchaudio.save: the file is opened,     *)
(* which truncates it, written and closed), and stores the entry.  The     *)
(* cache calls are taken whole here.                                       *)
(***************************************************************************)
Renders == {"r1", "r2"}

\* h = message_hash(text), h = message_hash(f"project:{name}"): the hashes
\* of the message and of the project name of the events handled.
RenderedHashes ==
    {message_hash("Task complete."), message_hash(project_text(<<"a">>))}

NoRender == [pc |-> "idle", h |-> 0]

\* existing = cache_manager.lookup(h); if existing: return
RenderLookup(r) ==
    LET g == render.gen[r]
        res == lookup(doc, files, g.h, Now)
    IN  /\ g.pc = "start"
        /\ doc' = res.doc
        /\ files' = res.files
        /\ clock' = Now
        /\ render' = [render EXCEPT !.gen[r] =
                IF res.val = None THEN [g EXCEPT !.pc = "synthesize"]
                ELSE NoRender]
        /\ UNCHANGED exceptRender

\* generate_audio: the audio is synthesized, then the file
\* CACHE_DIR / f"{h}.wav" is opened for writing: it exists from here on,
\* with no or part of its content.
RenderOpen(r) ==
    /\ render.gen[r].pc = "synthesize"
    /\ files' = files \cup {WavPath(render.gen[r].h)}
    /\ render' = [render EXCEPT !.gen[r].pc = "write"]
    /\ UNCHANGED <<doc, clock, exceptRender>>

\* generate_audio: the frames are written and the file is closed.
RenderClose(r) ==
    /\ render.gen[r].pc = "write"
    /\ render' = [render EXCEPT !.gen[r].pc = "store"]
    /\ UNCHANGED <<doc, files, clock, exceptRender>>

\* cache_manager.store(h, text, wav_path)
RenderStore(r) ==
    LET g == render.gen[r]
        res == store(doc, files, g.h, WavPath(g.h), MaxEntries, Now, FALSE)
    IN  /\ g.pc = "store"
        /\ doc' = res.doc
        /\ files' = res.files
        /\ clock' = Now
        /\ render' = [render EXCEPT !.gen[r] = NoRender]
        /\ UNCHANGED exceptRender

\* subprocess.Popen(["uv", "run", ..., script, flag, value]): a render
\* process is started, when the model has one left.
spawn_background_generate(gen, h) ==
    IF \A r \in Renders : gen[r].pc # "idle" THEN gen
    ELSE [gen EXCEPT ![CHOOSE r \in Renders : gen[r].pc = "idle"] =
                [pc |-> "start", h |-> h]]

\* A handler invocation looks an artifact up (cache_manager.lookup of the
\* message hash or of the project hash).  On a hit play_audio starts the
\* player on the file; on a miss the render is spawned.
HandlerLookup ==
    \E h \in RenderedHashes :
        LET res == lookup(doc, files, h, Now)
        IN  /\ render.playing = None
            /\ doc' = res.doc
            /\ files' = res.files
            /\ clock' = Now
            /\ render' =
                  IF res.val = "raise" THEN render
                  ELSE IF res.val = None
                  THEN [render EXCEPT !.gen = spawn_background_generate(@, h)]
                  ELSE [render EXCEPT !.playing = res.val]
            /\ UNCHANGED exceptRender

\* The player has read the file to its end.
HandlerPlayed ==
    /\ render.playing # None
    /\ render' = [render EXCEPT !.playing = None]
    /\ UNCHANGED <<doc, files, clock, exceptRender>>

InitRenderIdle ==
    render = [gen |-> [r \in Renders |-> NoRender], playing |-> None]

InitRender == InitRenderIdle

NextRender ==
    \/ \E r \in Renders :
          \/ RenderLookup(r)
          \/ RenderOpen(r)
          \/ RenderClose(r)
          \/ RenderStore(r)
    \/ HandlerLookup
    \/ HandlerPlayed

(***************************************************************************)
(* The idle cooldown across invocations (hooks/tts/handler.py 181-192 and  *)
(* 252-257).  Each handler process takes one idle notification at a time:  *)
(* it reads the marker file and the time (is_idle_on_cooldown) and either  *)
(* exits or goes on to write the time into the marker                     *)
(* (mark_idle_cooldown) and to the output.  Nothing synchronises the       *)
(* processes; time passes between any two steps.                           *)
(***************************************************************************)
IdleProcs == {"i1", "i2"}

\* The seconds that can pass between two steps.
Ticks ==
    {IDLE_COOLDOWN_SECONDS - 1, IDLE_COOLDOWN_SECONDS, IDLE_COOLDOWN_SECONDS + 1}

\* What the last cooldown check of a process found: the time, the marker
\* it read, the time written by the last mark_idle_cooldown before it, and
\* whether the notification was suppressed.
NoCheck ==
    [pc |-> "idle", checked |-> FALSE, at |-> 0, file |-> Missing(0),
     pass |-> Missing(0), suppressed |-> FALSE]

\* if is_idle_on_cooldown(): sys.exit(0)
IdleCheck(p) ==
    LET on == is_idle_on_cooldown(cooldown.file, cooldown.now)
    IN  /\ cooldown.inv[p].pc = "idle"
        /\ cooldown' = [cooldown EXCEPT !.inv[p] =
                [pc |-> IF on THEN "idle" ELSE "mark",
                 checked |-> TRUE, at |-> cooldown.now,
                 file |-> cooldown.file, pass |-> cooldown.pass,
                 suppressed |-> on]]
        /\ UNCHANGED exceptCooldown

\* mark_idle_cooldown(): IDLE_COOLDOWN_FILE.write_text(str(time.time()))
IdleMark(p) ==
    /\ cooldown.inv[p].pc = "mark"
    /\ cooldown' = [cooldown EXCEPT !.inv[p].pc = "idle",
                                    !.file = Some(cooldown.now),
                                    !.prev = cooldown.pass,
                                    !.pass = Some(cooldown.now)]
    /\ UNCHANGED exceptCooldown

\* Time passes.
Tick ==
    \E d \in Ticks :
        /\ cooldown.now + d <= MaxTime
        /\ cooldown' = [cooldown EXCEPT !.now = @ + d]
        /\ UNCHANGED exceptCooldown

\* The marker file is deleted, or overwritten with text that is no number:
\* read_text raises OSError, float raises ValueError.
MarkerLost ==
    /\ cooldown.file.has
    /\ cooldown' = [cooldown EXCEPT !.file = Missing(0)]
    /\ UNCHANGED exceptCooldown

NoCooldown ==
    [now |-> 0, file |-> Missing(0), pass |-> Missing(0), prev |-> Missing(0),
     inv |-> [p \in IdleProcs |-> NoCheck]]

InitCooldownIdle == cooldown = NoCooldown

InitCooldown == cooldown = NoCooldown

NextCooldown ==
    \/ \E p \in IdleProcs : IdleCheck(p) \/ IdleMark(p)
    \/ Tick
    \/ MarkerLost


NextPlay ==
    \E p \in Procs :
        \/ play_audio(p)
        \/ play_sequence(p)
        \/ generate_and_play(p)
        \/ audio_lock_acquire(p)
        \/ subprocess_run_start(p)
        \/ subprocess_run_end(p)
        \/ audio_lock_release(p)

(***************************************************************************)
(* Specifications                                                          *)
(***************************************************************************)
InitSpecPlay ==
    InitPlay /\ InitCache /\ InitAware /\ InitMainIdle /\ InitRaceIdle
    /\ InitCatIdle /\ InitCascadeIdle /\ InitRenderIdle /\ InitCooldownIdle

SpecPlay == InitSpecPlay /\ [][NextPlay]_vars

\* A process inside a call goes on: flock returns once the lock is free,
\* subprocess.run starts the player, the with block is left.
CallsGoOn ==
    \A p \in Procs :
        /\ WF_vars(audio_lock_acquire(p))
        /\ WF_vars(subprocess_run_start(p))
        /\ WF_vars(audio_lock_release(p))

\* Every player process terminates.
PlayersTerminate ==
    \A p \in Procs : WF_vars(subprocess_run_end(p)) /\ WF_vars(orphan_exit(p))

\* The players may hang: subprocess.run is called without a timeout.
SpecPlayHang == SpecPlay /\ CallsGoOn

SpecPlayLive == SpecPlay /\ CallsGoOn /\ PlayersTerminate

NextKill == NextPlay \/ \E p \in Procs : kill(p) \/ orphan_exit(p)

SpecKill ==
    InitSpecPlay /\ [][NextKill]_vars /\ CallsGoOn /\ PlayersTerminate

InitSpecCache ==
    InitPlay /\ InitCache /\ InitAware /\ InitMainIdle /\ InitRaceIdle
    /\ InitCatIdle /\ InitCascadeIdle /\ InitRenderIdle /\ InitCooldownIdle

SpecCache == InitSpecCache /\ [][NextCache]_vars

InitSpecAware ==
    InitPlay /\ InitCache /\ InitAware /\ InitMainIdle /\ InitRaceIdle
    /\ InitCatIdle /\ InitCascadeIdle /\ InitRenderIdle /\ InitCooldownIdle

SpecAware == InitSpecAware /\ [][NextAware]_vars

InitSpecMain ==
    InitPlay /\ InitMainCache /\ InitAware /\ InitMain /\ InitRaceIdle
    /\ InitCatIdle /\ InitCascadeIdle /\ InitRenderIdle /\ InitCooldownIdle

SpecMain == InitSpecMain /\ [][NextMain]_vars

InitSpecRace ==
    InitPlay /\ InitCache /\ InitAware /\ InitMainIdle /\ InitRaceIdle
    /\ InitCatIdle /\ InitCascadeIdle /\ InitRenderIdle /\ InitCooldownIdle

SpecRace == InitSpecRace /\ [][NextRace]_vars

InitSpecCategorize ==
    InitPlay /\ InitCache /\ InitAware /\ InitMainIdle /\ InitRaceIdle
    /\ InitCat /\ InitCascadeIdle /\ InitRenderIdle /\ InitCooldownIdle

SpecCategorize == InitSpecCategorize /\ [][NextCategorize]_vars

InitSpecCascade ==
    InitPlay /\ InitCache /\ InitAware /\ InitMainIdle /\ InitRaceIdle
    /\ InitCatIdle /\ InitCascade /\ InitRenderIdle /\ InitCooldownIdle

SpecCascade == InitSpecCascade /\ [][NextCascade]_vars

InitSpecRender ==
    /\ InitPlay /\ InitCache /\ InitAware /\ InitMainIdle /\ InitRaceIdle
    /\ InitCatIdle /\ InitCascadeIdle /\ InitRender /\ InitCooldownIdle

SpecRender == InitSpecRender /\ [][NextRender]_vars

InitSpecCooldown ==
    /\ InitPlay /\ InitCache /\ InitAware /\ InitMainIdle /\ InitRaceIdle
    /\ InitCatIdle /\ InitCascadeIdle /\ InitRenderIdle /\ InitCooldown

SpecCooldown == InitSpecCooldown /\ [][NextCooldown]_vars

InitSpecNotify ==
    /\ InitPlay /\ InitCache /\ InitAware /\ InitRaceIdle /\ InitCatIdle
    /\ InitRenderIdle /\ InitCooldownIdle
    /\ mpc = "end"
    /\ exited = Running
    /\ ntfy_topic = Missing("")
    /\ config = ConfigOther(Unset)
    /\ input_data = EventOther(Unset)
    /\ notification_type = None
    /\ tier = Unset
    /\ out = <<>>
    /\ sentinels = [muted |-> FALSE, suppressed |-> {}]
    /\ marker = Missing(0)
    /\ InitNotify

SpecNotify == InitSpecNotify /\ [][NextNotify]_vars

(***************************************************************************)
(* C1: at every instant at most one invocation has a player child running, *)
(* a player runs only while its invocation holds the audio lock, and the   *)
(* lock never has more than one holder.                                    *)
(***************************************************************************)
Thm_C1_OnePlayerUnderLock ==
    /\ Cardinality(running) <= 1
    /\ running \subseteq holders
    /\ Cardinality(holders) <= 1

\* A player is running for one invocation while each kind of call made by
\* other invocations is blocked in flock().
Wit_C1_ContendedPlayback ==
    \E p \in Procs :
        /\ p \in running
        /\ \E q \in Procs \ {p} : pc[q] = "flock" /\ job[q].kind = "play_sequence"
        /\ \E q \in Procs \ {p} : pc[q] = "flock" /\ job[q].kind = "generate_and_play"

(***************************************************************************)
(* C2: the files of one play_sequence call are played back to back, in the *)
(* order of the list: no file of another invocation is started between two *)
(* files of the same sequence (so [A,B] and [C,D] play as A,B,C,D or       *)
(* C,D,A,B, never A,C,B,D).                                                *)
(***************************************************************************)
Thm_C2_SequenceNotSplit ==
    \A i \in 1..Len(played) : \A j \in 1..Len(played) :
        (i < j /\ played[i].proc = played[j].proc)
            => /\ \A k \in i..j : played[k].proc = played[i].proc
               /\ played[j].file = played[i].file + (j - i)

\* Two concurrent two-file sequences have both been played completely, and
\* the second one was already waiting for the lock when the first started.
Wit_C2_TwoSequencesPlayed ==
    \E p \in Procs : \E q \in Procs \ {p} :
        /\ job[p] = [kind |-> "play_sequence", n |-> 2]
        /\ job[q] = [kind |-> "play_sequence", n |-> 2]
        /\ pc[p] = "done" /\ pc[q] = "done"
        /\ Len(played) >= 4
        /\ \E i \in 1..(Len(played) - 3) :
              /\ played[i] = [proc |-> p, file |-> 1]
              /\ played[i + 1] = [proc |-> p, file |-> 2]
              /\ played[i + 2] = [proc |-> q, file |-> 1]
              /\ played[i + 3] = [proc |-> q, file |-> 2]

(***************************************************************************)
(* Helpers of the cache claims                                             *)
(***************************************************************************)
WellFormed(d) == HasEntries(load_index(d))

LaOf(es, k) == es[Pos(es, k)].la

\* The step is a call of store(h, ..., path, ...) / of lookup(h).
IsStore(h, path) ==
    ret'.op = "store" /\ ret'.h = h /\ ret'.path = path /\ StoreOf(h, path)

IsLookup(h) == ret'.op = "lookup" /\ ret'.h = h /\ LookupOf(h)

(***************************************************************************)
(* C6: with the same maxEntries on every call the index never holds more   *)
(* than maxEntries entries, and storing a new hash into an index that      *)
(* holds maxEntries entries leaves exactly maxEntries entries: exactly one *)
(* entry is removed, the others are kept as they were, and the removed one *)
(* has the oldest last_access among the entries at the time of eviction    *)
(* (the new one included).                                                 *)
(***************************************************************************)
Thm_C6_EvictsOldest ==
    [][/\ doc'.kind = "index" => Len(doc'.entries) <= MaxEntries
       /\ \A h \in Hashes, path \in Paths :
            (/\ IsStore(h, path)
             /\ WellFormed(doc)
             /\ Len(Loaded(doc)) = MaxEntries
             /\ h \notin Keys(Loaded(doc)))
            => LET pre == Loaded(doc)
                   post == doc'.entries
                   removed == (Keys(pre) \cup {h}) \ Keys(post)
                   laThen(k) == IF k = h THEN clock' ELSE LaOf(pre, k)
               IN  /\ doc'.kind = "index"
                   /\ Len(post) = MaxEntries
                   /\ Keys(post) \subseteq Keys(pre) \cup {h}
                   /\ Cardinality(removed) = 1
                   /\ \A r \in removed : \A k \in Keys(pre) \cup {h} :
                          laThen(r) <= laThen(k)
                   /\ \A k \in Keys(post) \ {h} :
                          post[Pos(post, k)] = pre[Pos(pre, k)]
      ]_vars

\* A store has just evicted an entry from a full index, and the entry it
\* removed was not the one inserted first: a lookup had refreshed that one.
Wit_C6_EvictedAfterRefresh ==
    /\ ret.op = "store"
    /\ ret.evicted # {}
    /\ doc.kind = "index" /\ Len(doc.entries) = MaxEntries
    /\ doc.entries[1].h = 1
    /\ doc.entries[Len(doc.entries)].h = ret.h
    /\ ret.evicted = {2}

(***************************************************************************)
(* C7 as stated: store(h, text, path, maxEntries) followed immediately by  *)
(* lookup(h) returns path, and last_access after the lookup is at or after *)
(* the time of the store.                                                  *)
(***************************************************************************)
CE_C7_StoreThenLookupHits ==
    [][\A h \in Hashes :
          (IsLookup(h) /\ Follows(h) = "store")
          => /\ ret'.val = ret.path
             /\ h \in Keys(Loaded(doc'))
             /\ LaOf(Loaded(doc'), h) >= clock
      ]_vars

(***************************************************************************)
(* C7 amended: store(h, text, path, maxEntries) followed immediately by    *)
(* lookup(h) returns path, with last_access after the lookup at or after   *)
(* the time of the store, provided the file at path exists when the lookup *)
(* runs and the store's own eviction kept the entry.                       *)
(***************************************************************************)
Thm_C7_StoreThenLookupHitsIfFileExists ==
    [][\A h \in Hashes :
          (/\ IsLookup(h)
           /\ Follows(h) = "store"
           /\ ret.path \in files
           /\ h \in Keys(Loaded(doc)))
          => /\ ret'.val = ret.path
             /\ h \in Keys(Loaded(doc'))
             /\ LaOf(Loaded(doc'), h) >= clock
      ]_vars

\* A lookup that directly followed a store of the same hash, over an older
\* entry with another path, has returned the path just stored.
Wit_C7_HitRightAfterStore ==
    /\ ret.op = "lookup" /\ ret.follows = "store"
    /\ ret.val \in Paths
    /\ clock >= 3
    /\ Len(doc.entries) = MaxEntries

(***************************************************************************)
(* C8: lookup(h) of an entry whose file does not exist returns a miss and  *)
(* writes the index back without that entry, all other entries unchanged   *)
(* and in the same order; the lookup(h) that follows is a plain miss: no   *)
(* entry, no exception, and the index is not written.                      *)
(***************************************************************************)
Thm_C8_StaleEntryRemovedOnce ==
    [][\A h \in Hashes :
          /\ (/\ IsLookup(h)
              /\ WellFormed(doc)
              /\ h \in Keys(Loaded(doc))
              /\ Loaded(doc)[Pos(Loaded(doc), h)].path \notin files)
             => LET pre == Loaded(doc)
                    post == doc'.entries
                    i == Pos(pre, h)
                IN  /\ ret'.val = None
                    /\ ret'.saved
                    /\ doc'.kind = "index"
                    /\ Len(post) = Len(pre) - 1
                    /\ \A j \in 1..Len(post) :
                          post[j] = IF j < i THEN pre[j] ELSE pre[j + 1]
                    /\ files' = files
          /\ (IsLookup(h) /\ Follows(h) = "stale")
             => /\ ret'.val = None
                /\ ~ret'.saved
                /\ doc' = doc
                /\ files' = files
      ]_vars

\* The second lookup of a hash whose stale entry the first lookup removed
\* has returned, with another entry still in the index.
Wit_C8_MissAfterStaleRemoval ==
    /\ ret.op = "lookup" /\ ret.follows = "stale"
    /\ ret.val = None
    /\ doc.kind = "index" /\ Len(doc.entries) >= 1

(***************************************************************************)
(* C9: across every store and lookup, the last_access of an entry that     *)
(* stays in the index never decreases, and a lookup that returns a path    *)
(* sets the entry's last_access to the current time.                       *)
(***************************************************************************)
Thm_C9_LastAccessMonotone ==
    [][/\ (WellFormed(doc) /\ WellFormed(doc'))
          => \A k \in Keys(Loaded(doc)) \cap Keys(Loaded(doc')) :
                LaOf(Loaded(doc'), k) >= LaOf(Loaded(doc), k)
       /\ \A h \in Hashes :
             (IsLookup(h) /\ ret'.val \in Paths)
             => /\ h \in Keys(Loaded(doc'))
                /\ LaOf(Loaded(doc'), h) = clock'
      ]_vars

\* A lookup has hit an entry stored at an earlier time: its last_access is
\* now the current time, later than that of an entry stored after it.
Wit_C9_HitRefreshedOlderEntry ==
    /\ ret.op = "lookup" /\ ret.val \in Paths
    /\ doc.kind = "index" /\ Len(doc.entries) = 2
    /\ doc.entries[1].h = ret.h
    /\ doc.entries[1].la = clock
    /\ doc.entries[2].la < clock

(***************************************************************************)
(* C10 as stated: whatever the index document is (missing, unreadable,     *)
(* not JSON, or JSON that is not an index), the cache treats it as an      *)
(* empty index: lookup returns a miss, get_any_cached_file returns none,   *)
(* store proceeds from an empty index, and no call raises.                 *)
(***************************************************************************)
CE_C10_AnyDocumentIsEmptyIndex ==
    [][doc.kind # "index"
       => /\ \A h \in Hashes :
                IsLookup(h) => ret'.val = None /\ doc' = doc
          /\ AnyCachedStep => ret'.val = None
          /\ \A h \in Hashes, path \in Paths :
                IsStore(h, path)
                => /\ ret'.val = None
                   /\ doc'.kind = "index"
                   /\ Keys(doc'.entries) = {h}
      ]_vars

(***************************************************************************)
(* C5 as stated: whenever an OS query made by detect_awareness fails       *)
(* (frontmost application, front window title or idle time), the result   *)
(* is unknown (None), never a tier.                                        *)
(***************************************************************************)
CE_C5_FailedQueryGivesUnknown ==
    \A i \in DOMAIN aw.queries :
        ~aw.os[aw.queries[i]].has => aw.tier = None

(***************************************************************************)
(* Helpers of the handler claims                                           *)
(***************************************************************************)
Ops(effects) == {effects[i].op : i \in DOMAIN effects}

\* The audio channel fired: something was played, or a process was spawned
\* to render or to comment.
Spoke ==
    Ops(out) \cap {"play_audio", "play_sequence", "spawn_gladosify",
                   "spawn_background_generate"} # {}

Pushed == "send_ntfy" \in Ops(out)

CE_C4_SentinelSilencesEveryHandler ==
    (\/ sentinels.muted
     \/ /\ input_data.kind = "dict"
        /\ input_data.cwd.has
        /\ input_data.cwd.v \in sentinels.suppressed)
    => out = <<>> /\ notify.out = <<>>

(***************************************************************************)
(* C11: under every interleaving of the unsynchronised cache calls of      *)
(* concurrent processes no call fails: the index document is always an     *)
(* index or something _load_index reads as the empty index, its entries    *)
(* have distinct keys and each names the artifact of its own key, and it   *)
(* never holds more than maxEntries entries.  What a race leaves behind    *)
(* is a lost entry or an entry whose file is gone, and the write of a      *)
(* lookup that found the file of its entry missing leaves the index        *)
(* without that entry.                                                     *)
(***************************************************************************)
Thm_C11_RacesLoseOrDangleOnly ==
    /\ [](/\ doc.kind \in {"index", "missing", "badjson"}
          /\ \A p \in RaceProcs : racers[p].val # "raise"
          /\ Len(doc.entries) <= MaxEntries
          /\ Cardinality(Keys(doc.entries)) = Len(doc.entries)
          /\ \A i \in 1..Len(doc.entries) :
                doc.entries[i].path = WavPath(doc.entries[i].h))
    /\ [][\A p \in RaceProcs :
            (racers[p].pc = "write" /\ racers[p].stale /\ RaceWrite(p)
             /\ doc'.kind = "index")
            => racers[p].h \notin Keys(doc'.entries)]_vars

\* A race has left an entry whose file is gone in the index on disk.
Wit_C11_DanglingEntryOnDisk ==
    /\ \A p \in RaceProcs : racers[p].pc = "idle"
    /\ \E i \in 1..Len(doc.entries) : doc.entries[i].path \notin files

(***************************************************************************)
(* Helpers of the audio-branch claims                                      *)
(***************************************************************************)
EventType == Get(input_data, "hook_event_name", "Stop")

ProjectName == extract_project_name(Get(input_data, "cwd", ""))

\* The cache keys of the message and of the project name of the event.
MsgHash ==
    message_hash(CHOOSE text \in get_message(EventType, notification_type) : TRUE)

ProjHash == message_hash(project_text(ProjectName))

\* The index on disk has key h and the file of its entry exists.
Hit(h) ==
    /\ doc.kind = "index"
    /\ \E i \in 1..Len(doc.entries) :
            doc.entries[i].h = h /\ doc.entries[i].path \in files

PathOf(h) == doc.entries[Pos(doc.entries, h)].path

\* The paths of the entries whose file exists.
ValidPaths ==
    {doc.entries[i].path : i \in {j \in 1..Len(doc.entries) :
                                      doc.entries[j].path \in files}}

\* main is about to take the template-audio branch and the index loads.
TemplateAudio ==
    /\ mpc = "speak"
    /\ tier \in {None, NEARBY}
    /\ ~use_dynamic(config)
    /\ config.sound_enabled # Some(FALSE)
    /\ doc.kind # "notindex"

PlayEffects(effects) ==
    {effects[i] : i \in {j \in DOMAIN effects :
                            effects[j].op \in {"play_audio", "play_sequence"}}}

RenderFlags(effects) ==
    {effects[i].a : i \in {j \in DOMAIN effects :
                              effects[j].op = "spawn_background_generate"}}

(***************************************************************************)
(* C12: on the template-audio branch with a project name, when the         *)
(* project-name artifact and the message artifact are both hits, the only  *)
(* effect of the branch is one play_sequence call with the project-name    *)
(* file first and the message file second; play_sequence takes the lock    *)
(* once for its two files, and nothing is rendered.                        *)
(***************************************************************************)
Thm_C12_BothHitsOneSequence ==
    [][(/\ TemplateAudio
        /\ ProjectName # <<>>
        /\ Hit(MsgHash) /\ Hit(ProjHash)
        /\ Speak)
       => /\ out' = out \o <<Effect("play_sequence", PathOf(ProjHash),
                                    PathOf(MsgHash))>>
          /\ LockSections("play_sequence", 2) = <<2>>]_vars

Wit_C12_SequencePlayed ==
    /\ exited.at = "done"
    /\ \E i \in DOMAIN out : out[i].op = "play_sequence"

(***************************************************************************)
(* C13: on the template-audio branch a render is spawned for exactly the   *)
(* artifacts that missed (--text for the message; --project for the        *)
(* project name, which is looked up only when there is one).  When one of  *)
(* the two hits it alone is played; when none hits, one cached file that   *)
(* exists is played if the index has any, nothing otherwise.               *)
(***************************************************************************)
Thm_C13_RenderExactlyTheMisses ==
    [][(TemplateAudio /\ Speak)
       => LET named == ProjectName # <<>>
              msgHit == Hit(MsgHash)
              projHit == named /\ Hit(ProjHash)
              plays == PlayEffects(out')
              flags == RenderFlags(out')
          IN  /\ out = <<>>
              /\ Len(out') = Cardinality(plays) + Cardinality(flags)
              /\ flags = (IF msgHit THEN {} ELSE {"--text"})
                         \cup (IF named /\ ~projHit THEN {"--project"} ELSE {})
              /\ (msgHit /\ projHit) =>
                    \A e \in plays : e.op = "play_sequence"
              /\ (msgHit /\ ~projHit) =>
                    plays = {Effect("play_audio", PathOf(MsgHash), None)}
              /\ (~msgHit /\ projHit) =>
                    plays = {Effect("play_audio", PathOf(ProjHash), None)}
              /\ (~msgHit /\ ~projHit /\ ValidPaths = {}) => plays = {}
              /\ (~msgHit /\ ~projHit /\ ValidPaths # {}) =>
                    \E path \in ValidPaths :
                        plays = {Effect("play_audio", path, None)}]_vars

Wit_C13_FallbackAndBothRendered ==
    /\ exited.at = "done"
    /\ Len(out) >= 3
    /\ out[1] = Effect("play_audio", WavPath(3), None)
    /\ RenderFlags(out) = {"--text", "--project"}

(***************************************************************************)
(* C14: an idle-class Notification that finds the cooldown marker less     *)
(* than IDLE_COOLDOWN_SECONDS old goes no further than the cooldown check, *)
(* and an invocation that ends at the cooldown check has produced no       *)
(* audio, no push, no render and no commentary process.                    *)
(***************************************************************************)
IdleClass ==
    /\ EventType = "Notification"
    /\ \/ Get(input_data, "notification_type", "") = "idle_prompt"
       \/ categorize_notification(Get(input_data, "message", ""))
            = "idle_timeout"

Thm_C14_IdleWithinCooldownSilent ==
    /\ [](exited.at = "cooldown" => out = <<>> /\ mpc = "end")
    /\ [][(mpc = "notification" /\ IdleClass /\ marker.has
           /\ mpc' = "awareness")
          => marker'.v - marker.v >= IDLE_COOLDOWN_SECONDS]_vars

Wit_C14_SuppressedByCooldown ==
    /\ exited.at = "cooldown"
    /\ ntfy_topic.has
    /\ config.ntfy_enabled # Some(FALSE)
    /\ config.sound_enabled # Some(FALSE)

(***************************************************************************)
(* Helpers of the classifier claims                                        *)
(***************************************************************************)
\* The configured terminal applications, or the default list.
ConfiguredApps ==
    IF aw.config.terminal_apps.has THEN aw.config.terminal_apps.v
    ELSE DEFAULT_TERMINAL_APPS

\* The frontmost application was found and is one of the terminal
\* applications, compared without regard to case.
FrontIsTerminal ==
    /\ aw.os.frontmost.has
    /\ \E a \in ConfiguredApps : Lower(a) = Lower(aw.os.frontmost.v)

AwarenessOn == aw.config.enabled = Some(TRUE)

Queried(q) == \E i \in DOMAIN aw.queries : aw.queries[i] = q

\* The idle threshold in force.
Threshold ==
    IF aw.config.idle_threshold_seconds.has
    THEN aw.config.idle_threshold_seconds.v
    ELSE DEFAULT_IDLE_THRESHOLD

(***************************************************************************)
(* C15: with awareness.enabled false or absent, detect_awareness returns   *)
(* unknown (None) and makes no OS query.                                   *)
(***************************************************************************)
Thm_C15_DisabledIsUnknownWithoutQuery ==
    (aw.called /\ ~AwarenessOn) => aw.tier = None /\ aw.queries = <<>>

Wit_C15_DisabledByAbsentKey ==
    /\ aw.called
    /\ ~aw.config.enabled.has
    /\ aw.tier = None
    /\ aw.project_name # <<>>

(***************************************************************************)
(* C16: when the frontmost application is not one of terminal_apps under   *)
(* case-insensitive comparison, detect_awareness does not return FOCUSED.  *)
(***************************************************************************)
Thm_C16_NonTerminalNeverFocused ==
    (aw.called /\ aw.os.frontmost.has /\ ~FrontIsTerminal)
        => aw.tier \in {AWAY, NEARBY, None}

Wit_C16_NonTerminalClassified ==
    /\ aw.called /\ AwarenessOn
    /\ aw.os.frontmost.has /\ ~FrontIsTerminal
    /\ aw.project_name = <<>>
    /\ aw.tier = NEARBY

(***************************************************************************)
(* C17: with awareness on, a non-terminal application frontmost and the    *)
(* idle query answered, the result is AWAY when idle > threshold and       *)
(* NEARBY otherwise: idle equal to the threshold is NEARBY, one second     *)
(* above it is AWAY.                                                       *)
(***************************************************************************)
Thm_C17_AwayIffIdleAboveThreshold ==
    (/\ aw.called /\ AwarenessOn
     /\ aw.os.frontmost.has /\ ~FrontIsTerminal
     /\ aw.os.idle.has)
    => /\ aw.tier = (IF aw.os.idle.v > Threshold THEN AWAY ELSE NEARBY)
       /\ aw.os.idle.v = Threshold => aw.tier = NEARBY
       /\ aw.os.idle.v = Threshold + 1 => aw.tier = AWAY

Wit_C17_IdleAtThreshold ==
    /\ aw.called /\ AwarenessOn
    /\ aw.os.frontmost.has /\ ~FrontIsTerminal
    /\ aw.os.idle.has
    /\ aw.os.idle.v = Threshold
    /\ aw.tier = NEARBY

SameLetter(c, d) ==
    \/ c = d
    \/ \E i \in 1..26 :
          {c, d} = {SubSeq(ascii_uppercase, i, i), SubSeq(ascii_lowercase, i, i)}

\* The keyword k occurs in m, whatever the case of m's letters.
Occurs(m, k) ==
    \E i \in 0..(Len(m) - Len(k)) :
        \A j \in 1..Len(k) :
            SameLetter(SubSeq(m, i + j, i + j), SubSeq(k, j, j))

OccursAny(m, ks) == \E k \in ks : Occurs(m, k)

CategoryNames ==
    [PermissionRequest |-> <<"permission_request", "PERMISSION_REQUEST">>,
     IdleTimeout |-> <<"idle_timeout", "IDLE_TIMEOUT">>,
     Error |-> <<"error", "ERROR">>,
     Warning |-> <<"warning", "WARNING">>,
     General |-> <<"general", "GENERAL">>]

ExpectedCategory(m) ==
    IF Occurs(m, "permission") /\ Occurs(m, "use") THEN "PermissionRequest"
    ELSE IF OccursAny(m, {"waiting for your input", "waiting for input"})
    THEN "IdleTimeout"
    ELSE IF OccursAny(m, {"error", "failed", "exception", "critical"})
    THEN "Error"
    ELSE IF OccursAny(m, {"warning", "warn", "caution"}) THEN "Warning"
    ELSE "General"

Examples ==
    {<<"Claude Code is requesting permission to use the Bash tool",
       "PermissionRequest">>,
     <<"Claude Code is waiting for your input", "IdleTimeout">>,
     <<"TypeError: x is not a function", "Error">>,
     <<"General system notification", "General">>,
     <<"", "General">>}

Categorized == cat.tts # NoCategory /\ cat.common # NoCategory

Thm_C19_OrderedFirstMatchIgnoringCase ==
    /\ cat.tts # NoCategory
          => cat.tts = CategoryNames[ExpectedCategory(cat.message)][1]
    /\ cat.common # NoCategory
          => cat.common = CategoryNames[ExpectedCategory(cat.message)][2]
    /\ \A e \in Examples :
          (Categorized /\ cat.message = e[1])
              => <<cat.tts, cat.common>> = CategoryNames[e[2]]

\* "permission" and "use" in another case, "use" inside a longer word,
\* next to an error keyword: the first rule decides.
Wit_C19_PermissionBeforeError ==
    /\ Categorized
    /\ cat.message = "Permission Error becaUSE "
    /\ cat.tts = "permission_request"


(***************************************************************************)
(* C20: a Notification event with a non-empty message, under a mapping     *)
(* whose Notification object has both an entry for the message's category  *)
(* and a "default" entry, resolves in the category branch to a variation   *)
(* of the category's entry, and not to the hook-event default, the         *)
(* tool-specific hook entry or the global default.                         *)
(***************************************************************************)
NotificationConfig == resolution.mapping.hook_events["Notification"]

CategoryKey ==
    notification_type_value(
        categorize_notification_message(Get(resolution.event, "message", "")))

CategoryAndDefaultConfigured ==
    /\ resolution.event.hook_event_name = "Notification"
    /\ Get(resolution.event, "message", "") # ""
    /\ NotificationConfig.kind = "dict"
    /\ NotificationConfig.keys[CategoryKey] # Absent
    /\ NotificationConfig.keys["default"] # Absent

CE_C20_CategoryEntryBeforeDefaults ==
    (resolution.pc = "returned" /\ CategoryAndDefaultConfigured)
        => resolution.result
             \in Resolved("category", NotificationConfig.keys[CategoryKey])

(***************************************************************************)
(* C21: the cascade returns the result of the first of its stages that     *)
(* matches, in the order (a) Notification category, (b) context patterns,  *)
(* (c) plain tool mapping, (d) hook-event mapping, tool-keyed entry before *)
(* the event's default, (e) global default.  A stage matches when it has a *)
(* notification to give; a context pattern that matches wins over the      *)
(* plain mapping of the same tool.                                         *)
(***************************************************************************)
Ev == resolution.event

StageOf(via) ==
    CASE via \in {"scalar", "category", "notification default"} -> 1
      [] via \in {"by_filename", "by_extension", "file default", "git",
                  "command type", "command list", "bash default"} -> 2
      [] via = "tool" -> 3
      [] via \in {"hook tool", "hook default", "hook event"} -> 4
      [] via = "global default" -> 5

HookConfig == resolution.mapping.hook_events[Ev.hook_event_name]

ToolKeyed == Ev.tool_name.has /\ HookConfig.keys[Ev.tool_name.v] # Absent

StageMatches(stage) ==
    CASE stage = 1 ->
            /\ Ev.hook_event_name = "Notification"
            /\ ReturnedAtOnce(get_notification_message(resolution.mapping, Ev))
                  # {}
      [] stage = 2 ->
            ReturnedAtOnce(context_stage(resolution.mapping,
                                         Ev.hook_event_name, Ev.tool_name,
                                         Ev.tool_input)) # {}
      [] stage = 3 ->
            /\ IsToolUse(Ev.hook_event_name)
            /\ Ev.tool_name.has
            /\ resolution.mapping.tools[Ev.tool_name.v] # Absent
      [] stage = 4 ->
            \/ HookConfig.kind = "scalar"
            \/ HookConfig.kind = "dict"
               /\ (ToolKeyed \/ HookConfig.keys["default"] # Absent)
      [] stage = 5 -> TRUE

Parsed ==
    [path |->
        [p \in {"src/app.py", "docs/README.md", "readme.md", "lib/Main.PY",
                "notes.txt"} |->
            CASE p = "src/app.py" -> <<"app.py", ".py">>
              [] p = "docs/README.md" -> <<"README.md", "README.md">>
              [] p = "readme.md" -> <<"readme.md", "README.md">>
              [] p = "lib/Main.PY" -> <<"Main.PY", ".py">>
              [] p = "notes.txt" -> <<"notes.txt", "">>],
     command |->
        [c \in {"git status", "sudo git -C repo commit -m x", "git stash",
                "npm run build", "  npm install", "ls -la"} |->
            CASE c = "git status" -> <<"git status", "git", "git status">>
              [] c = "sudo git -C repo commit -m x" ->
                    <<"git commit", "", "sudo git -C repo commit -m x">>
              [] c = "git stash" -> <<"", "git", "git stash">>
              [] c = "npm run build" -> <<"", "npm", "npm run build">>
              [] c = "  npm install" -> <<"", "npm", "npm install">>
              [] c = "ls -la" -> <<"", "", "ls -la">>]]

Patterns == resolution.mapping.context_patterns

\* The rule that is to decide for a file tool, and its entry.
ExpectedFileRule ==
    LET p == Parsed.path[Get(Ev.tool_input, "file_path", "")]
        tool_patterns ==
            Patterns.file_operations[
                IF Ev.tool_name.v = "MultiEdit" THEN "Edit" ELSE Ev.tool_name.v]
        named == {i \in DOMAIN tool_patterns.by_filename :
                     tool_patterns.by_filename[i][1] = p[1]}
        typed == {i \in DOMAIN tool_patterns.by_extension :
                     p[2] # "" /\ tool_patterns.by_extension[i][1] = p[2]}
    IN  IF named # {}
        THEN <<"by_filename", tool_patterns.by_filename[Min(named)][2]>>
        ELSE IF typed # {}
        THEN <<"by_extension", tool_patterns.by_extension[Min(typed)][2]>>
        ELSE IF ~Falsy(tool_patterns.default)
        THEN <<"file default", tool_patterns.default>>
        ELSE <<"none", Absent>>

\* The rule that is to decide for the shell, and its entry.
ExpectedShellRule ==
    LET c == Parsed.command[Get(Ev.tool_input, "command", "")]
        shell == Patterns.bash_commands
        git == shell.by_type["git"].patterns
        subcommand == {i \in DOMAIN git : c[1] # "" /\ git[i][1] = c[1]}
        of_type == IF c[2] = "" THEN NoPatterns ELSE shell.by_type[c[2]]
        prefixes == {i \in DOMAIN of_type.patterns :
                        str_startswith(c[3], of_type.patterns[i][1])}
    IN  IF subcommand # {} THEN <<"git", git[Min(subcommand)][2]>>
        ELSE IF of_type.kind = "dict" /\ prefixes # {}
        THEN <<"command type", of_type.patterns[Min(prefixes)][2]>>
        ELSE IF of_type.kind = "list" THEN <<"command list", of_type.list>>
        ELSE IF ~Falsy(shell.default) THEN <<"bash default", shell.default>>
        ELSE <<"none", Absent>>

FileRuleApplies ==
    /\ IsToolUse(Ev.hook_event_name)
    /\ Ev.tool_name.has /\ Ev.tool_name.v \in {"Read", "Edit", "MultiEdit"}
    /\ Get(Ev.tool_input, "file_path", "") # ""

ShellRuleApplies ==
    /\ IsToolUse(Ev.hook_event_name)
    /\ Ev.tool_name.has /\ Ev.tool_name.v = "Bash"
    /\ Get(Ev.tool_input, "command", "") # ""

\* The results of the context patterns are those of the one rule.
OnlyRule(rule) ==
    context_stage(resolution.mapping, Ev.hook_event_name, Ev.tool_name,
                  Ev.tool_input)
        = IF rule[1] = "none" THEN NoMatch ELSE Resolved(rule[1], rule[2])

Thm_C22_MostSpecificRuleAlone ==
    resolution.pc = "returned" =>
        /\ FileRuleApplies => OnlyRule(ExpectedFileRule)
        /\ ShellRuleApplies => OnlyRule(ExpectedShellRule)
        /\ StageOf(resolution.result.via) = 2
              => resolution.result.via
                   = (IF FileRuleApplies THEN ExpectedFileRule[1]
                      ELSE ExpectedShellRule[1])

\* README.md edited under patterns that have a rule for the filename, one
\* for the extension and a default.
Wit_C22_FilenameBeforeExtension ==
    /\ resolution.pc = "returned"
    /\ FileRuleApplies
    /\ Get(Ev.tool_input, "file_path", "") = "docs/README.md"
    /\ Patterns.file_operations["Edit"].by_extension # <<>>
    /\ ~Falsy(Patterns.file_operations["Edit"].default)
    /\ resolution.result.via = "by_filename"

(***************************************************************************)
(* C23: whatever the shape of the entry the cascade resolves to, a string, *)
(* a list of alternatives or a title/message pair, the value returned is a *)
(* pair with a title and a message: the string or one element of the list  *)
(* as the message, or the pair itself.                                     *)
(***************************************************************************)
\* The entry of the mapping the result was resolved from.
EntryOf(via) ==
    CASE via = "category" -> NotificationConfig.keys[CategoryKey]
      [] via = "notification default" -> NotificationConfig.keys["default"]
      [] via = "scalar" -> NotificationConfig.scalar
      [] via = "hook default" -> HookConfig.keys["default"]
      [] via = "hook tool" -> HookConfig.keys[Ev.tool_name.v]
      [] via = "hook event" -> HookConfig.scalar
      [] via = "tool" -> resolution.mapping.tools[Ev.tool_name.v]
      [] via = "global default" -> resolution.mapping.default
      [] via \in {"by_filename", "by_extension", "file default"} ->
            ExpectedFileRule[2]
      [] via \in {"git", "command type", "command list", "bash default"} ->
            ExpectedShellRule[2]

IsPair(data) == data.kind = "dict" /\ Len(data.texts) = 1

Thm_C23_AlwaysTitleAndMessage ==
    resolution.pc = "returned" =>
        LET entry == EntryOf(resolution.result.via)
            data == resolution.result.data
        IN  /\ IsPair(data)
            /\ entry.kind = "str" => data = Dict("Claude Code", entry.texts[1])
            /\ (entry.kind = "list" /\ entry.texts # <<>>)
                  => /\ data.title = "Claude Code"
                     /\ \E i \in DOMAIN entry.texts : data.texts[1] = entry.texts[i]
            /\ entry.kind = "dict" => data = entry

\* A list of alternatives resolved to its second element.
Wit_C23_ListGivesOneElement ==
    /\ resolution.pc = "returned"
    /\ EntryOf(resolution.result.via) = List(<<"category", "category, again">>)
    /\ resolution.result.data = Dict("Claude Code", "category, again")

(***************************************************************************)
(* C24: an event whose kind the push handler does not know is given the    *)
(* built-in default pair, title "Claude Code" and message "Task            *)
(* completed", whatever the mapping holds; no exception is raised on the   *)
(* way and the push is sent with that pair.                                *)
(***************************************************************************)
UnknownKind ==
    /\ resolution.stdin.kind = "dict"
    /\ Get(resolution.stdin, "hook_event_name", "UnknownEvent")
          \notin {"Stop", "SubagentStop", "Notification", "notification",
                  "PreToolUse", "PostToolUse"}

CE_C25_MalformedInputNeverAborts ==
    (exited.at = "raise" /\ config.kind = "dict") => input_data.kind = "dict"

(***************************************************************************)
(* C26: the push handler's main ends with exit status 0 whatever happened  *)
(* on the way, a push that could not be delivered included.                *)
(***************************************************************************)
CE_C26_EveryInvocationExitsZero == notify.pc = "end" => notify.status = 0

(***************************************************************************)
(* C27: a call of play_audio or play_sequence that waits for the lock      *)
(* returns after a bounded wait, also when the holder's player never       *)
(* ends.                                                                   *)
(***************************************************************************)
CE_C27_WaitForLockIsBounded ==
    \A p \in Procs : (pc[p] = "flock") ~> (pc[p] # "flock")

(***************************************************************************)
(* C28: the lock is never held by a process that was killed, whenever no   *)
(* live process is inside a with block a waiting process can take the      *)
(* lock, and every waiting process does get it or is killed itself.        *)
(***************************************************************************)
LiveHolders == {p \in Procs : pc[p] \in {"body", "wait"}}

Thm_C28_KilledHolderFreesLock ==
    /\ [](holders = LiveHolders)
    /\ [](\A q \in Procs :
            (pc[q] = "flock" /\ LiveHolders = {})
                => ENABLED audio_lock_acquire(q))
    /\ \A q \in Procs : (pc[q] = "flock") ~> (pc[q] \in {"body", "killed"})

\* A holder was killed while its player ran, and a process that waited
\* holds the lock while that player still plays.
Wit_C28_LockTakenAfterKill ==
    \E p, q \in Procs :
        /\ pc[p] = "killed"
        /\ p \in running
        /\ q \in holders

(***************************************************************************)
(* C29: provided every player terminates, every call that waits for the    *)
(* lock gets it and every call that holds it gives it back, so every call  *)
(* made comes to its end; and a process that is in a call and is not       *)
(* waiting for the lock can always take its next step, whatever the other  *)
(* processes do.                                                           *)
(***************************************************************************)
Thm_C29_EveryWaiterAcquires ==
    /\ [](\A p \in Procs :
            /\ pc[p] = "body"
                  => ENABLED (subprocess_run_start(p) \/ audio_lock_release(p))
            /\ pc[p] = "wait" => ENABLED subprocess_run_end(p)
            /\ pc[p] = "flock"
                  => (ENABLED audio_lock_acquire(p) <=> holders \ {p} = {}))
    /\ \A p \in Procs :
          /\ (pc[p] = "flock") ~> (p \in holders)
          /\ (p \in holders) ~> (pc[p] = "done" /\ p \notin holders)

\* Two processes wait while a third plays.
Wit_C29_TwoWaitOnOne ==
    \E p \in Procs :
        /\ p \in running
        /\ \A q \in Procs \ {p} : pc[q] = "flock"

(***************************************************************************)
(* C30 as stated: get_any_cached_file returns the path of an entry of the  *)
(* index whose file exists whenever there is such an entry, and none       *)
(* otherwise; it never returns the path of a missing file and it leaves    *)
(* the index document and the files as they were.                          *)
(***************************************************************************)
PathsOfValidEntries ==
    IF doc.kind = "index"
    THEN {doc.entries[i].path : i \in 1..Len(doc.entries)} \cap files
    ELSE {}

CE_C30_AnyValidEntryOrNone ==
    [][AnyCachedStep
       => /\ PathsOfValidEntries # {} => ret'.val \in PathsOfValidEntries
          /\ PathsOfValidEntries = {} => ret'.val = None
          /\ doc' = doc
          /\ files' = files
      ]_vars

(***************************************************************************)
(* C31: a store whose eviction could not delete the file of the entry it   *)
(* evicted returns without raising, has written the index, the evicted     *)
(* entry is not in the written index and the stored entry is, with the     *)
(* path it was stored under.                                               *)
(***************************************************************************)
Thm_C31_EvictionSurvivesUnlinkFailure ==
    [][\A h \in Hashes, path \in Paths :
          (IsStore(h, path) /\ ret'.undeleted # {})
          => /\ ret'.val = None
             /\ ret'.saved
             /\ doc'.kind = "index"
             /\ ret'.evicted # {}
             /\ ret'.evicted \cap Keys(doc'.entries) = {}
             /\ h \in Keys(doc'.entries)
             /\ doc'.entries[Pos(doc'.entries, h)].path = path
             /\ Len(doc'.entries) <= MaxEntries
      ]_vars

\* A store evicted an entry whose file is still there, while the files of
\* the entries that are kept are there too.
Wit_C31_EvictedFileLeftBehind ==
    /\ ret.op = "store"
    /\ ret.undeleted # {}
    /\ ret.val = None
    /\ ret.undeleted \cap {doc.entries[i].path : i \in 1..Len(doc.entries)} = {}

(***************************************************************************)
(* C32 as stated: when config.json is missing or cannot be parsed, the     *)
(* handler runs with the hardcoded default, in which sound and push are    *)
(* enabled and awareness is disabled: the tier is unknown, and an          *)
(* invocation that reaches its end has served the audio channel and, when  *)
(* it was given a topic, sent the push.                                    *)
(***************************************************************************)
AudioOps == {"play_audio", "play_sequence", "spawn_background_generate"}

Fired(ops) == \E i \in 1..Len(out) : out[i].op \in ops

RunsOnDefault ==
    /\ Get(config, "enabled", TRUE)
    /\ Get(config, "sound_enabled", TRUE)
    /\ Get(config, "ntfy_enabled", TRUE)
    /\ ~use_dynamic(config)
    /\ ~awareness_enabled(Get(config, "awareness", EmptyAwarenessConfig))
    /\ mpc \in {"speak", "push"} \/ exited.at = "done" => tier = None
    /\ exited.at = "done"
          => /\ Fired(AudioOps)
             /\ ntfy_topic.has => Fired({"send_ntfy"})

CE_C32_UnparsedConfigRunsOnDefault ==
    /\ config.kind \notin {"missing", "badjson", "undecodable"}
    /\ config = DefaultConfig => RunsOnDefault

(***************************************************************************)
(* C33 as stated: under any interleaving of two renders of one text, both  *)
(* started while the text was a miss, with a handler that looks the        *)
(* artifact up and plays it, the file the handler is playing is never      *)
(* being written by a render at the same time.                             *)
(***************************************************************************)
CE_C33_PlayedFileNotBeingWritten ==
    \A r \in Renders :
        render.gen[r].pc = "write" => render.playing # WavPath(render.gen[r].h)

(***************************************************************************)
(* C34 as stated: of two idle notifications handled at the same time, at   *)
(* most one passes the cooldown check: no two processes are past the check *)
(* (about to write the marker and produce output) with checks made less    *)
(* than the cooldown apart.                                                *)
(***************************************************************************)
CE_C34_OnePassPerWindow ==
    \A p, q \in IdleProcs :
        (p # q /\ cooldown.inv[p].pc = "mark" /\ cooldown.inv[q].pc = "mark")
        => \/ cooldown.inv[p].at - cooldown.inv[q].at >= IDLE_COOLDOWN_SECONDS
           \/ cooldown.inv[q].at - cooldown.inv[p].at >= IDLE_COOLDOWN_SECONDS

(***************************************************************************)
(* C35 as stated: an idle notification that the tier gate silences (tier   *)
(* FOCUSED) has not written the cooldown marker: the marker is as it was   *)
(* before the invocation.                                                  *)
(***************************************************************************)
MarkerWritten == marker.has /\ marker.v \in CooldownTimes

CE_C35_SilencedIdleLeavesMarker ==
    (tier = FOCUSED /\ notification_type = "idle_timeout") => ~MarkerWritten

(***************************************************************************)
(* C36: an idle notification whose cooldown check is made 300 s or more    *)
(* after the time written by the last notification that passed the check,  *)
(* or that finds no readable marker, is not suppressed, whatever was       *)
(* suppressed in between; and a suppressed notification leaves the marker  *)
(* as it was.                                                              *)
(***************************************************************************)
Thm_C36_SuppressedChecksDoNotExtend ==
    /\ [](\A p \in IdleProcs :
            LET c == cooldown.inv[p]
            IN  (/\ c.checked
                 /\ \/ ~c.file.has
                    \/ ~c.pass.has
                    \/ c.at - c.pass.v >= IDLE_COOLDOWN_SECONDS)
                => ~c.suppressed)
    /\ [][\A p \in IdleProcs :
            (IdleCheck(p) /\ cooldown'.inv[p].suppressed)
            => /\ cooldown'.file = cooldown.file
               /\ cooldown'.inv[p].pc = "idle"]_vars

\* A notification was suppressed inside the window, and a later one, 300 s
\* or more after the same last pass, went through.
Wit_C36_PassAfterSuppressed ==
    \E p, q \in IdleProcs :
        LET c == cooldown.inv[p]
            b == cooldown.inv[q]
        IN  /\ c.checked /\ ~c.suppressed /\ c.file.has
            /\ c.at - c.pass.v >= IDLE_COOLDOWN_SECONDS
            /\ b.checked /\ b.suppressed
            /\ b.pass = c.pass
            /\ b.at < c.at

(***************************************************************************)
(* C37: for every message, the empty one included, the member of           *)
(* NotificationType that categorize_notification_message returns and the   *)
(* string that categorize_notification returns are the same category: the  *)
(* member's name in lower case is the string.                              *)
(***************************************************************************)
Thm_C37_CategorizersAgree ==
    Categorized => str_lower(cat.common) = cat.tts

\* A message with an error keyword and a warning keyword, both in another
\* case: both categorizers say error.
Wit_C37_ErrorBeforeWarningInBoth ==
    /\ Categorized
    /\ cat.message = "Build FAILED Warn"
    /\ cat.tts = "error"
    /\ cat.common = "ERROR"

(***************************************************************************)
(* C38 as stated: when sound_enabled is false in the configuration, the    *)
(* invocation starts no audio playback by any path: it runs no player and  *)
(* spawns no dynamic commentary (which synthesizes and plays), whatever    *)
(* the tier.                                                               *)
(***************************************************************************)
PlaybackOps == {"play_audio", "play_sequence", "spawn_gladosify"}

CE_C38_SoundDisabledIsSilent ==
    (config.kind = "dict" /\ ~Get(config, "sound_enabled", TRUE))
        => ~Fired(PlaybackOps)

(***************************************************************************)
(* C39 as stated: with suppress_delegate_mode enabled (the default, also   *)
(* when the key is absent), an event whose session_mode or permission_mode *)
(* is "delegate" produces no output of any kind, from either hook command. *)
(***************************************************************************)
IsDelegate ==
    /\ input_data.kind = "dict"
    /\ \/ Get(input_data, "session_mode", "") = "delegate"
       \/ Get(input_data, "permission_mode", "") = "delegate"

CE_C39_DelegateEventIsSilent ==
    (/\ config.kind = "dict"
     /\ Get(config, "suppress_delegate_mode", TRUE)
     /\ IsDelegate)
    => out = <<>> /\ notify.out = <<>>

(***************************************************************************)
(* C40: an invocation of the TTS handler that exits early (global mute,    *)
(* enabled false, per-project suppress, delegate suppression) has written  *)
(* no cooldown marker, has left the cache index, its last-access times and *)
(* the artifact files as they were, and has spawned no process and run no  *)
(* player.                                                                 *)
(***************************************************************************)
EarlyExits == {"mute", "enabled", "suppress", "delegate"}

Thm_C40_EarlyExitTouchesNothing ==
    exited.at \in EarlyExits
        => /\ out = <<>>
           /\ marker \in {Missing(0), Some(0)}
           /\ [doc |-> doc, files |-> files] \in MainCaches
           /\ clock = 0

\* A delegate event left through the delegate exit with a cooldown marker
\* and a cache of two artifacts in place.
Wit_C40_DelegateExitWithCacheAndMarker ==
    /\ exited.at = "delegate"
    /\ marker = Some(0)
    /\ doc.kind = "index" /\ Len(doc.entries) = 2
    /\ IsDelegate

====
